---- MODULE Spec2Model ----
(***************************************************************************)
(* A model of the PulseChain consensus core:                               *)
(*   PoHGenerator   (src/pulsechain/core/poh_generator.py)                 *)
(*   PoHConsensus   (src/pulsechain/consensus/poh.py)                      *)
(*   HeartbeatProtocol (src/pulsechain/network/heartbeat.py)               *)
(*   RegionManager  (src/pulsechain/core/region_manager.py)                *)
(*   RegionSync     (src/pulsechain/network/region_sync.py)                *)
(*                                                                         *)
(* Modelling conventions.                                                  *)
(*  - Every public method runs its whole body inside `with self.lock:`,    *)
(*    so one method call is one atomic action.  A method that calls        *)
(*    another method of the same object while holding self.lock            *)
(*    (confirm_slot -> finalize_slot, create_new_slot -> select_leader,    *)
(*    register_node -> _select_coordinator, get_latest_hash -> next) is    *)
(*    modelled here as the nested call running to completion inside the    *)
(*    caller's critical section.  The locks are threading.Lock objects;    *)
(*    what the nested acquisition does to the calling thread is a          *)
(*    separate matter and is not part of the specifications below.         *)
(*  - SHA-256 is an injective constructor: a digest is the sequence of     *)
(*    the words it was computed from.  None and b"" are both falsy in      *)
(*    every test the code makes; both are << >> (byte strings) or 0        *)
(*    (the env hash).                                                      *)
(*  - Wall-clock timestamps of pulse links are advisory and are left out.  *)
(*  - Sizes that are literals in the code (1000-entry rings) are scaled    *)
(*    down; each such definition names the literal it stands for.          *)
(***************************************************************************)
EXTENDS Integers, Sequences, FiniteSets, TLC

(***************************************************************************)
(* Bounds of the model                                                     *)
(***************************************************************************)
MaxCounter == 3        \* next() is not called once the counter reaches this
MaxImports == 1        \* import_chain calls per behaviour
MaxSlots == 2          \* create_new_slot is not called once current_slot_number reaches this
MaxTime == 2           \* the clock does not advance beyond this
MaxRepeat == 17        \* select_leader is not repeated once a leader's consecutive_slots reaches this
MaxRun == 9           \* slots created in a long run of one consensus instance
MaxStreak == 4         \* select_leader is not called once a leader's consecutive_slots reaches this
MaxSeq == 3            \* heartbeats carry the sequence numbers 1..MaxSeq
MaxAccepts == 2        \* a sequence number is not delivered again once accepted this often
MaxInvocations == 2    \* a message is not delivered again once a handler ran for it this often
MaxCreated == 2        \* RegionSync creates no message once it has created this many
MaxEnvSlots == 2       \* slots created while the integrator is subscribed
MaxPulses == 1         \* next() is not called from outside once the counter reaches this while
                       \* calls are followed lock by lock
MaxSamples == 4        \* samples of one source type in a call of _integrate_by_type

(***************************************************************************)
(* Program constants                                                       *)
(***************************************************************************)
RingLimit == 2         \* len(hash_chain) > 1000 / hash_chain[-1000:], scaled to 2

Threads == {"t1", "t2"}

\* the env_data payloads next() is called with; 0 stands for "no env_data"
EnvPayloads == {1}
\* a payload only another generator uses
PeerPayload == 2

VARIABLES
    gen,        \* PoHGenerator: last_hash, counter, env_data_hash, hash_chain
    issued,     \* links returned by next() since construction, in the order the lock
                \* serialised the calls; no longer recorded once a chain was imported
    imports,    \* number of import_chain calls so far
    returned,   \* the counter of the link the latest next() returned, 0 before the first
    op,         \* the last call: name, argument, return value
    consensus,  \* PoHConsensus instances sharing the generator: [instance -> state]
    fired,      \* the callbacks dispatched and score adjustments made, in order
    now,        \* time.time()
    hb,         \* HeartbeatProtocol: nodes, received_heartbeats, what the last call dispatched
    accepted,   \* per sender, how often each sequence number was accepted since the
                \* sender was registered
    rm,         \* RegionManager: primary_region, regions, nodes, what the last call dispatched
    sync,       \* RegionSync: outgoing_messages, incoming_messages, processed_message_ids,
                \* the number of messages it created
    invoked,    \* per message_id, how often process_message called a handler for it
    integrator, \* EnvDataIntegrator of instance "a": sources, data_points,
                \* latest_integrated_data
    sched       \* the holder of each component's lock and each thread's call stack

hb_vars == <<hb, accepted>>
sync_vars == <<sync, invoked>>

\* the state of the network components
net_vars == <<hb_vars, rm, sync_vars>>

vars == <<gen, issued, imports, returned, op, consensus, fired, now, net_vars, integrator,
          sched>>

gen_vars == <<gen, issued, imports, returned>>
cons_vars == <<consensus, fired>>

(***************************************************************************)
(* Helpers                                                                 *)
(***************************************************************************)
\* s[-n:]
LastN(s, n) == IF Len(s) <= n THEN s ELSE SubSeq(s, Len(s) - n + 1, Len(s))

\* s[a:b] with Python's 0-based half-open bounds, 0 <= a
Slice(s, a, b) == IF a >= b THEN << >> ELSE SubSeq(s, a + 1, IF b > Len(s) THEN Len(s) ELSE b)

Min(a, b) == IF a <= b THEN a ELSE b
Max(a, b) == IF a >= b THEN a ELSE b

(***************************************************************************)
(* PoHHash and its digest                                                  *)
(***************************************************************************)
\* hashlib.sha256(b"PulseChain PoH Genesis").digest()
GenesisHash == <<0>>

\* hashlib.sha256(b"Initial Environment Data").digest()
InitialEnvHash == 1

\* hashlib.sha256(env_data).digest() of payload d
EnvDigest(d) == 1 + d

\* sha256(prev_hash + counter.to_bytes(8, 'little') + env_data_hash)
Digest(prev, ctr, env) == prev \o <<ctr, env>>

PoHHash(h, c, e, p) == [hash |-> h, counter |-> c, env_data_hash |-> e, prev_hash |-> p]

\* bytes.hex(): two hex digits per byte
Hex(b) == [i \in 1..(2 * Len(b)) |->
              IF i % 2 = 1 THEN b[(i + 1) \div 2] \div 16 ELSE b[i \div 2] % 16]

\* bytes.fromhex() raises ValueError on an odd number of digits
FromHexRaises(h) == Len(h) % 2 = 1

FromHex(h) == [i \in 1..(Len(h) \div 2) |-> h[2 * i - 1] * 16 + h[2 * i]]

\* PoHHash.to_dict
to_dict(l) ==
    [hash |-> Hex(l.hash),
     counter |-> l.counter,
     env_data_hash |-> IF l.env_data_hash # 0 THEN Hex(<<l.env_data_hash>>) ELSE << >>,
     prev_hash |-> IF l.prev_hash # << >> THEN Hex(l.prev_hash) ELSE << >>]

from_dict_raises(d) ==
    \/ FromHexRaises(d.hash)
    \/ FromHexRaises(d.env_data_hash)
    \/ FromHexRaises(d.prev_hash)

\* PoHHash.from_dict
from_dict(d) ==
    [hash |-> FromHex(d.hash),
     counter |-> d.counter,
     env_data_hash |-> IF d.env_data_hash # << >> THEN FromHex(d.env_data_hash)[1] ELSE 0,
     prev_hash |-> IF d.prev_hash # << >> THEN FromHex(d.prev_hash) ELSE << >>]

(***************************************************************************)
(* PoHGenerator                                                            *)
(***************************************************************************)
GenInit ==
    [last_hash |-> GenesisHash,
     counter |-> 0,
     env_data_hash |-> InitialEnvHash,
     hash_chain |-> << >>]

\* next() with prev_hash read after last_hash was updated
NextLink_late_prev(g, env_data) ==
    LET env == IF env_data # 0 THEN EnvDigest(env_data) ELSE g.env_data_hash
        new_hash == Digest(g.last_hash, g.counter, env)
    IN  PoHHash(new_hash, g.counter + 1, env, new_hash)

\* PoHGenerator.next(env_data); env_data = 0 is "not provided"
NextLink(g, env_data) ==
    LET env == IF env_data # 0 THEN EnvDigest(env_data) ELSE g.env_data_hash
        prev_hash == g.last_hash
        new_hash == Digest(prev_hash, g.counter, env)
    IN  PoHHash(new_hash, g.counter + 1, env, prev_hash)

NextGen(g, env_data) ==
    LET l == NextLink(g, env_data)
    IN  [last_hash |-> l.hash,
         counter |-> l.counter,
         env_data_hash |-> l.env_data_hash,
         hash_chain |-> LastN(Append(g.hash_chain, l), RingLimit)]

\* (counter - 1).to_bytes(8, 'little') raises OverflowError below zero
verify_raises(l) == l.prev_hash # << >> /\ l.counter - 1 < 0

\* PoHGenerator.verify
verify(l) ==
    IF l.prev_hash = << >> THEN FALSE
    ELSE Digest(l.prev_hash, l.counter - 1, l.env_data_hash) = l.hash

\* PoHGenerator.export_chain(start_idx, count)
export_chain(g, start_idx, count) ==
    LET end_idx == Min(start_idx + count, Len(g.hash_chain))
        part == Slice(g.hash_chain, start_idx, end_idx)
    IN  [i \in 1..Len(part) |-> to_dict(part[i])]

\* the list comprehension of import_chain: [PoHHash.from_dict(data) for data in chain_data]
imported_chain_of(chain_data) == [i \in 1..Len(chain_data) |-> from_dict(chain_data[i])]

\* import_chain returns True: the batch is not empty, every from_dict succeeds and
\* verify holds (without raising) for imported_chain[1:], i.e. range(1, len)
import_accepts(chain_data) ==
    /\ chain_data # << >>
    /\ \A i \in 1..Len(chain_data) : ~from_dict_raises(chain_data[i])
    /\ \A i \in 2..Len(chain_data) :
          LET l == from_dict(chain_data[i]) IN ~verify_raises(l) /\ verify(l)

\* the state update of import_chain under self.lock
import_merge(g, imported_chain) ==
    LET last_imported == imported_chain[Len(imported_chain)]
        overlap == {i \in 1..Len(g.hash_chain) :
                       g.hash_chain[i].counter = imported_chain[1].counter}
        overlap_idx == CHOOSE i \in overlap : \A j \in overlap : i <= j
        chain == IF Len(imported_chain) > Len(g.hash_chain)
                 THEN LastN(imported_chain, RingLimit)
                 ELSE IF overlap # {}
                      THEN LastN(SubSeq(g.hash_chain, 1, overlap_idx - 1) \o imported_chain,
                                 RingLimit)
                      ELSE g.hash_chain
    IN  [last_hash |-> last_imported.hash,
         counter |-> last_imported.counter,
         env_data_hash |-> IF last_imported.env_data_hash # 0
                           THEN last_imported.env_data_hash ELSE g.env_data_hash,
         hash_chain |-> chain]

\* PoHGenerator.import_chain
import_chain_gen(g, chain_data) ==
    IF import_accepts(chain_data) THEN import_merge(g, imported_chain_of(chain_data)) ELSE g

\* PoHGenerator.get_latest_hash: an empty ring makes it call next()
latest_gen(g) == IF g.hash_chain = << >> THEN NextGen(g, 0) ELSE g

latest_link(g) == IF g.hash_chain = << >> THEN NextLink(g, 0) ELSE g.hash_chain[Len(g.hash_chain)]

(***************************************************************************)
(* Inputs of import_chain                                                  *)
(***************************************************************************)
\* a digest no link of any chain has
BadHash == <<15>>

\* one field of one exported link changed after export
Corrupt(d, field) ==
    CASE field = "hash" -> [d EXCEPT !.hash = Hex(BadHash)]
      [] field = "counter" -> [d EXCEPT !.counter = d.counter + 1]
      [] field = "prev_hash" -> [d EXCEPT !.prev_hash = Hex(BadHash)]
      [] field = "env_data_hash" -> [d EXCEPT !.env_data_hash = Hex(<<EnvDigest(PeerPayload + 1)>>)]

CorruptFields == {"hash", "counter"}

CorruptAt(batch, i, field) == [batch EXCEPT ![i] = Corrupt(batch[i], field)]

\* the chain another generator built from the same genesis with another payload
RECURSIVE PeerGen(_)
PeerGen(n) == IF n = 0 THEN [GenInit EXCEPT !.hash_chain = << >>]
              ELSE LET g == PeerGen(n - 1)
                       l == NextLink(g, PeerPayload)
                   IN  [last_hash |-> l.hash, counter |-> l.counter,
                        env_data_hash |-> l.env_data_hash,
                        hash_chain |-> Append(g.hash_chain, l)]

OwnExports(g) ==
    {export_chain(g, s, k) : s \in 0..(Len(g.hash_chain) - 1), k \in 1..Len(g.hash_chain)}

PeerExports ==
    {export_chain(PeerGen(MaxCounter), s, k) : s \in 0..(MaxCounter - 1), k \in 1..MaxCounter}

\* a record whose hash is not valid hex
Malformed == [hash |-> <<1>>, counter |-> 1, env_data_hash |-> << >>, prev_hash |-> << >>]

ImportInputs(g) ==
    LET good == OwnExports(g) \cup PeerExports
    IN  good
        \cup {CorruptAt(b, i, f) : <<b, i, f>> \in
                 {<<b, i, f>> \in good \X (1..MaxCounter) \X CorruptFields : i <= Len(b)}}
        \cup {<< >>, <<Malformed>>}

(***************************************************************************)
(* PoHConsensus                                                            *)
(***************************************************************************)
Instances == {"a", "b"}

\* the node_id each instance was constructed with
NodeIdOf(i) == IF i = "a" THEN "node1" ELSE "node2"

\* Optional[str] None
NoId == "None"

\* Optional[float] None
NoTime == -1

\* target_hashes_per_slot (constructor argument; 10000 by default)
TargetHashesPerSlot == 2

\* performance_score is kept in thousandths: 1.0 is 1000, 0.5 is 500, 1.5 is 1500
ScoreOne == 1000
ScoreMin == 500
ScoreMax == 1500

\* the ids and stakes register_leader is called with
LeaderIds == {"node1", "L2"}
Stakes == {1, 2}

\* the ids register_validator is called with: validators register in this
\* order, and any registered one may register again
ValidatorOrder == <<"v1", "v2", "v3", "v4">>
ValidatorInputs(validators) ==
    {ValidatorOrder[k] : k \in 1..Min(Len(ValidatorOrder), Cardinality(validators) + 1)}

\* the ids confirm_slot is called with, registered or not
ConfirmerIds == {"v1", "v2"}

\* subscribers: "confirm" is ValidatorNode._on_new_slot, "integrate" is
\* EnvDataIntegrator._on_new_slot, "log" is ValidatorNode._on_slot_finalized,
\* which only logs
ConsensusInit(i, new_cbs, fin_cbs) ==
    [node_id |-> NodeIdOf(i),
     target_hashes_per_slot |-> TargetHashesPerSlot,
     current_slot_number |-> 0,
     slots |-> << >>,
     finalized_slots |-> << >>,
     leaders |-> << >>,
     current_leader_id |-> NoId,
     is_leader |-> FALSE,
     validators |-> {},
     on_new_slot_callbacks |-> new_cbs,
     on_slot_finalized_callbacks |-> fin_cbs]

\* a bare PoHConsensus, or one wired up by ValidatorNode._connect_components
ConsensusInits ==
    {[i \in Instances |-> ConsensusInit(i, << >>, << >>)],
     [i \in Instances |-> ConsensusInit(i, <<"confirm">>, <<"log">>)]}

PoHLeader(id, stake) ==
    [node_id |-> id, stake |-> stake, performance_score |-> ScoreOne,
     last_leader_slot |-> 0, consecutive_slots |-> 0]

PoHSlot(n, start_counter, leader_id, start_time) ==
    [slot_number |-> n, start_counter |-> start_counter, end_counter |-> start_counter,
     leader_id |-> leader_id, start_time |-> start_time, end_time |-> NoTime,
     confirmations |-> {}, is_finalized |-> FALSE]

\* EnvDataIntegrator: min_sources and max_data_age (constructor arguments,
\* the latter in time units), update_interval of a source
MinSources == 2
MaxDataAge == 1
UpdateInterval == 1

\* the literal 1000 of "len(self.data_points) > 1000", scaled
DataLimit == 3

\* EnvDataSource.last_update = 0.0, the epoch, long before the node started
Epoch == 0 - UpdateInterval - MaxDataAge - 1

\* the sources add_source is called with: a TIME source, which always
\* delivers, and a MARKET source without api_url, which delivers nothing
SourceIds == {"clock", "market"}
SourceType(source_id) == IF source_id = "market" THEN "market" ELSE "time"

EnvDataSource(source_id) ==
    [source_id |-> source_id, source_type |-> SourceType(source_id),
     last_update |-> Epoch, last_data |-> FALSE]

\* EnvDataIntegrator.__init__
IntegratorInit ==
    [sources |-> << >>, data_points |-> << >>, latest_integrated_data |-> << >>]

\* EnvDataIntegrator.add_source: self.sources[source_id] = EnvDataSource(...)
add_source_in(g, source_id) ==
    IF \E k \in 1..Len(g.sources) : g.sources[k].source_id = source_id
    THEN [g EXCEPT !.sources = [k \in 1..Len(g.sources) |->
                                   IF g.sources[k].source_id = source_id
                                   THEN EnvDataSource(source_id) ELSE g.sources[k]]]
    ELSE [g EXCEPT !.sources = Append(@, EnvDataSource(source_id))]

\* EnvDataIntegrator.remove_source
remove_source_in(g, source_id) ==
    [g EXCEPT !.sources = SelectSeq(@, LAMBDA s : s.source_id # source_id)]

\* EnvDataIntegrator._collect_from_source returns data
delivers(source) == source.source_type = "time"

\* EnvDataIntegrator.collect_data for the k-th source at time t: the sample
\* as a sequence of at most one EnvData, and the integrator afterwards
collect_data_in(g, k, t) ==
    LET source == g.sources[k]
    IN  IF t - source.last_update < UpdateInterval
        THEN [g |-> g,
              ret |-> IF source.last_data
                      THEN <<[timestamp |-> source.last_update,
                              source_id |-> source.source_id]>>
                      ELSE << >>]
        ELSE IF delivers(source)
        THEN [g |-> [g EXCEPT !.sources[k].last_update = t,
                              !.sources[k].last_data = TRUE],
              ret |-> <<[timestamp |-> t, source_id |-> source.source_id]>>]
        ELSE [g |-> g, ret |-> << >>]

\* the loop of collect_all_data from the k-th source on
RECURSIVE CollectFrom(_, _, _)
CollectFrom(g, k, t) ==
    IF k > Len(g.sources) THEN g
    ELSE LET r == collect_data_in(g, k, t)
         IN  CollectFrom([r.g EXCEPT !.data_points = @ \o r.ret], k + 1, t)

\* EnvDataIntegrator.collect_all_data
collect_all_data_in(g, t) ==
    [CollectFrom(g, 1, t) EXCEPT !.data_points = LastN(@, DataLimit)]

\* the samples integrate_data keeps: "current_time - d.timestamp <= self.max_data_age"
valid_data(g, t) == SelectSeq(g.data_points, LAMBDA d : t - d.timestamp <= MaxDataAge)

\* integrate_data counting every stored sample, whatever its age
integrate_data_in_unaged(g, t) ==
    IF Len(g.data_points) < MinSources THEN [g |-> g, ret |-> << >>]
    ELSE LET integrated == [timestamp |-> t, source_count |-> Len(g.data_points)]
         IN  [g |-> [g EXCEPT !.latest_integrated_data = <<integrated>>],
              ret |-> <<integrated>>]

\* EnvDataIntegrator.integrate_data: None, or the integrated data as far as
\* its hash depends on the samples
integrate_data_in(g, t) ==
    IF Len(valid_data(g, t)) < MinSources THEN [g |-> g, ret |-> << >>]
    ELSE LET integrated == [timestamp |-> t, source_count |-> Len(valid_data(g, t))]
         IN  [g |-> [g EXCEPT !.latest_integrated_data = <<integrated>>],
              ret |-> <<integrated>>]

\* _integrate_by_type: the literals of "len(values) >= 4" and "3 * mad"
OutlierMinValues == 4
MadFactor == 3

\* the values an API reports for one numeric field, and the confidences
\* collect_data gives a sample, in tenths (0.5 for cached data, 1.0 for fresh)
FieldValues == {0 - 10, 0 - 1, 0, 1, 10}
Confidences == {5, 10}

\* an EnvData of one source type as far as one numeric key goes
EnvData(confidence, value) == [confidence |-> confidence, value |-> value]

\* sorted(s) for a sequence of integers
RECURSIVE sorted(_)
sorted(s) ==
    IF s = << >> THEN << >>
    ELSE LET k == CHOOSE k \in 1..Len(s) :
                     /\ \A j \in 1..Len(s) : s[k] <= s[j]
                     /\ \A j \in 1..(k - 1) : s[j] # s[k]
         IN  <<s[k]>> \o sorted(SubSeq(s, 1, k - 1) \o SubSeq(s, k + 1, Len(s)))

\* data_list.sort(key=lambda d: d.confidence, reverse=True), a stable sort
RECURSIVE sort_by_confidence(_)
sort_by_confidence(data_list) ==
    IF data_list = << >> THEN << >>
    ELSE LET k == CHOOSE k \in 1..Len(data_list) :
                     /\ \A j \in 1..Len(data_list) :
                            data_list[k].confidence >= data_list[j].confidence
                     /\ \A j \in 1..(k - 1) :
                            data_list[j].confidence # data_list[k].confidence
         IN  <<data_list[k]>>
                \o sort_by_confidence(SubSeq(data_list, 1, k - 1)
                                         \o SubSeq(data_list, k + 1, Len(data_list)))

\* twice statistics.median(values): the middle value, or the mean of the two
\* middle values
median_x2(values) ==
    LET s == sorted(values)
        n == Len(s)
    IN  IF n % 2 = 1 THEN 2 * s[(n + 1) \div 2]
        ELSE s[n \div 2] + s[n \div 2 + 1]

Abs(x) == IF x < 0 THEN 0 - x ELSE x

\* the outlier check entered from five values on only
filters_late(values) == Len(values) >= OutlierMinValues + 1

\* "if len(values) >= 4"
filters(values) == Len(values) >= OutlierMinValues

\* the indices of filtered_values: with "median = statistics.median(values)",
\* "deviations = [abs(x - median) for x in values]" and
\* "mad = statistics.median(deviations)", those with
\* "abs(value - median) <= 3 * mad"; the deviations are kept doubled
within_mads(values) ==
    LET median2 == median_x2(values)
        deviations2 == [i \in 1..Len(values) |-> Abs(2 * values[i] - median2)]
        mad4 == median_x2(deviations2)
    IN  {i \in 1..Len(values) : 2 * deviations2[i] <= MadFactor * mad4}

\* the indices of the values the weighted average is taken over
survivors(values) ==
    IF filters(values)
    THEN LET kept == within_mads(values)
         IN  IF kept # {} THEN kept ELSE 1..Len(values)
    ELSE 1..Len(values)

RECURSIVE SumOver(_, _)
SumOver(f, s) ==
    IF s = {} THEN 0
    ELSE LET i == CHOOSE i \in s : TRUE IN f[i] + SumOver(f, s \ {i})

\* "sum(v * w for v, w in zip(values, weights)) / sum(weights)" over the
\* indices in s, as the fraction <<numerator, denominator>>
weighted_mean(values, weights, s) ==
    <<SumOver([i \in 1..Len(values) |-> values[i] * weights[i]], s),
      SumOver(weights, s)>>

\* EnvDataIntegrator._integrate_by_type for one numeric key: result[key] as
\* a fraction
integrate_by_type(data_list) ==
    LET ordered == sort_by_confidence(data_list)
        values == [i \in 1..Len(ordered) |-> ordered[i].value]
        weights == [i \in 1..Len(ordered) |-> ordered[i].confidence]
    IN  IF Len(values) = 1 THEN <<values[1], 1>>
        ELSE weighted_mean(values, weights, survivors(values))

\* equality of two fractions with positive denominators
SameFraction(a, b) == a[1] * b[2] = b[1] * a[2]

\* the payload next() is called with for the integrated data: its JSON text
\* differs from every other payload
IntegratedPayload(integrated) ==
    2 + integrated.timestamp * (DataLimit + 1) + integrated.source_count

\* EnvDataIntegrator._on_new_slot
on_new_slot_in(w, i, t) ==
    IF ~w.consensus[i].is_leader THEN w
    ELSE LET r == integrate_data_in(collect_all_data_in(w.integrator, t), t)
         IN  IF r.ret = << >> THEN [w EXCEPT !.integrator = r.g]
             ELSE [w EXCEPT !.integrator = r.g,
                            !.gen = NextGen(@, IntegratedPayload(r.ret[1]))]

\* the world a consensus method runs in: the instances, the shared generator,
\* and the log of what was dispatched
World == [consensus |-> consensus, gen |-> gen, fired |-> fired, integrator |-> integrator]

\* self.leaders[node_id] = PoHLeader(...): a dict keeps the position of a key it has
register_leader_in(leaders, id, stake) ==
    IF \E k \in 1..Len(leaders) : leaders[k].node_id = id
    THEN [k \in 1..Len(leaders) |->
             IF leaders[k].node_id = id THEN PoHLeader(id, stake) ELSE leaders[k]]
    ELSE Append(leaders, PoHLeader(id, stake))

\* leader.stake * leader.performance_score
Weight(l) == l.stake * l.performance_score

\* cumulative_weight after the first k leaders of the dict
RECURSIVE CumulativeWeight(_, _)
CumulativeWeight(leaders, k) ==
    IF k = 0 THEN 0 ELSE CumulativeWeight(leaders, k - 1) + Weight(leaders[k])

RECURSIVE SumSeq(_)
SumSeq(q) == IF q = << >> THEN 0 ELSE q[1] + SumSeq(Tail(q))

\* random.seed(sha256(hash + slot_number)[:8]); random.random() as a number of
\* RandDen-ths in [0, 1): a fixed function of the seed's inputs
RandDen == 4
RandNum(hash, slot_number) == (SumSeq(hash) * 7 + Len(hash) + slot_number * 3) % RandDen

\* the loop of select_leader: the first leader, in dict order, whose
\* cumulative weight reaches selection_point = uniform(0, total_weight)
SelectedIndex(leaders, r) ==
    LET total_weight == CumulativeWeight(leaders, Len(leaders))
        reached(k) == CumulativeWeight(leaders, k) * RandDen >= total_weight * r
    IN  CHOOSE k \in 1..Len(leaders) : reached(k) /\ \A j \in 1..(k - 1) : ~reached(j)

\* leader stats update of select_leader that decays one win later
UpdateStreak_late(leader, current_leader_id, slot_number) ==
    IF current_leader_id = leader.node_id
    THEN [leader EXCEPT !.last_leader_slot = slot_number,
                        !.consecutive_slots = @ + 1,
                        !.performance_score =
                            IF leader.consecutive_slots + 1 > 4 THEN (@ * 95) \div 100 ELSE @]
    ELSE [leader EXCEPT !.last_leader_slot = slot_number, !.consecutive_slots = 1]

\* leader stats update of select_leader
UpdateStreak(leader, current_leader_id, slot_number) ==
    IF current_leader_id = leader.node_id
    THEN [leader EXCEPT !.last_leader_slot = slot_number,
                        !.consecutive_slots = @ + 1,
                        !.performance_score =
                            IF leader.consecutive_slots + 1 > 3 THEN (@ * 95) \div 100 ELSE @]
    ELSE [leader EXCEPT !.last_leader_slot = slot_number, !.consecutive_slots = 1]

\* PoHConsensus.select_leader
select_leader_in(w, i, slot_number) ==
    LET c == w.consensus[i]
    IN  IF c.leaders = << >> THEN [w |-> w, ret |-> c.node_id]
        ELSE LET latest_hash == latest_link(w.gen)
                 w1 == [w EXCEPT !.gen = latest_gen(w.gen)]
                 r == RandNum(latest_hash.hash, slot_number)
                 total_weight == CumulativeWeight(c.leaders, Len(c.leaders))
             IN  IF total_weight = 0
                 THEN [w |-> w1,
                       ret |-> c.leaders[1 + (r * Len(c.leaders)) \div RandDen].node_id]
                 ELSE LET k == SelectedIndex(c.leaders, r)
                      IN  [w |-> [w1 EXCEPT !.consensus[i].leaders[k] =
                                      UpdateStreak(@, c.current_leader_id, slot_number)],
                           ret |-> c.leaders[k].node_id]

\* required_confirmations of finalize_slot
required_confirmations(validators) == Max(1, (Cardinality(validators) * 2) \div 3)

\* 0.8 <= hashes_produced / target_hashes_per_slot <= 1.2
GoodRatio(hashes_produced, target) ==
    10 * hashes_produced >= 8 * target /\ 10 * hashes_produced <= 12 * target

\* leader performance update of finalize_slot
AdjustScore(leader, hashes_produced, target) ==
    IF GoodRatio(hashes_produced, target)
    THEN [leader EXCEPT !.performance_score = Min(ScoreMax, (@ * 105) \div 100)]
    ELSE [leader EXCEPT !.performance_score = Max(ScoreMin, (@ * 95) \div 100)]

Dispatch(i, cbs, event, n) ==
    [j \in 1..Len(cbs) |-> [inst |-> i, event |-> event, slot |-> n, cb |-> j]]

\* finalize_slot from "# Finalize the slot" on: mark the slot, read the latest
\* pulse, append to finalized_slots, adjust the leader's score, notify
do_finalize(w, i, slot_number, t) ==
    LET c == w.consensus[i]
        latest_hash == latest_link(w.gen)
        slot == [c.slots[slot_number] EXCEPT !.is_finalized = TRUE,
                                             !.end_time = t,
                                             !.end_counter = latest_hash.counter]
        hashes_produced == slot.end_counter - slot.start_counter
        known == \E k \in 1..Len(c.leaders) : c.leaders[k].node_id = slot.leader_id
        leaders == [k \in 1..Len(c.leaders) |->
                       IF c.leaders[k].node_id = slot.leader_id
                       THEN AdjustScore(c.leaders[k], hashes_produced,
                                        c.target_hashes_per_slot)
                       ELSE c.leaders[k]]
        c1 == [c EXCEPT !.slots[slot_number] = slot,
                        !.finalized_slots = Append(@, slot_number),
                        !.leaders = leaders]
        log == (IF known
                THEN <<[inst |-> i, event |-> "score", slot |-> slot_number, cb |-> 0]>>
                ELSE << >>)
               \o Dispatch(i, c.on_slot_finalized_callbacks, "on_slot_finalized",
                           slot_number)
    IN  [w |-> [consensus |-> [w.consensus EXCEPT ![i] = c1],
                gen |-> latest_gen(w.gen),
                fired |-> w.fired \o log,
                integrator |-> w.integrator],
         ret |-> TRUE]

\* finalize_slot without its "already finalized" return
finalize_slot_in_again(w, i, slot_number, t) ==
    LET c == w.consensus[i]
    IN  IF slot_number \notin DOMAIN c.slots THEN [w |-> w, ret |-> FALSE]
        ELSE IF Cardinality(c.slots[slot_number].confirmations)
                    < required_confirmations(c.validators)
        THEN [w |-> w, ret |-> FALSE]
        ELSE do_finalize(w, i, slot_number, t)

\* PoHConsensus.finalize_slot
finalize_slot_in(w, i, slot_number, t) ==
    LET c == w.consensus[i]
    IN  IF slot_number \notin DOMAIN c.slots THEN [w |-> w, ret |-> FALSE]
        ELSE IF c.slots[slot_number].is_finalized THEN [w |-> w, ret |-> TRUE]
        ELSE IF Cardinality(c.slots[slot_number].confirmations)
                    < required_confirmations(c.validators)
        THEN [w |-> w, ret |-> FALSE]
        ELSE do_finalize(w, i, slot_number, t)

\* confirm_slot without its "already finalized" return
confirm_slot_in_late(w, i, slot_number, validator_id, t) ==
    LET c == w.consensus[i]
    IN  IF slot_number \notin DOMAIN c.slots THEN [w |-> w, ret |-> FALSE]
        ELSE finalize_slot_in(
                 [w EXCEPT !.consensus[i].slots[slot_number].confirmations =
                               @ \cup {validator_id}],
                 i, slot_number, t)

\* confirm_slot counting a repeated confirmation as one more vote
confirm_slot_in_recount(w, i, slot_number, validator_id, t) ==
    LET c == w.consensus[i]
    IN  IF slot_number \notin DOMAIN c.slots THEN [w |-> w, ret |-> FALSE]
        ELSE IF c.slots[slot_number].is_finalized THEN [w |-> w, ret |-> TRUE]
        ELSE IF validator_id \in c.slots[slot_number].confirmations
                  /\ Cardinality(c.slots[slot_number].confirmations) + 1
                        >= required_confirmations(c.validators)
        THEN do_finalize(w, i, slot_number, t)
        ELSE finalize_slot_in(
                 [w EXCEPT !.consensus[i].slots[slot_number].confirmations =
                               @ \cup {validator_id}],
                 i, slot_number, t)

\* PoHConsensus.confirm_slot
confirm_slot_in(w, i, slot_number, validator_id, t) ==
    LET c == w.consensus[i]
    IN  IF slot_number \notin DOMAIN c.slots THEN [w |-> w, ret |-> FALSE]
        ELSE IF c.slots[slot_number].is_finalized THEN [w |-> w, ret |-> TRUE]
        ELSE finalize_slot_in(
                 [w EXCEPT !.consensus[i].slots[slot_number].confirmations =
                               @ \cup {validator_id}],
                 i, slot_number, t)

\* the on_new_slot callbacks, from the j-th on: ValidatorNode._on_new_slot
\* confirms the slot in its own name unless it leads it
RECURSIVE NewSlotCallbacks(_, _, _, _, _)
NewSlotCallbacks(w, i, slot_number, j, t) ==
    LET c == w.consensus[i]
        w1 == [w EXCEPT !.fired = Append(@, [inst |-> i, event |-> "on_new_slot",
                                             slot |-> slot_number, cb |-> j])]
    IN  IF j > Len(c.on_new_slot_callbacks) THEN w
        ELSE IF c.on_new_slot_callbacks[j] = "confirm"
                  /\ c.slots[slot_number].leader_id # c.node_id
        THEN NewSlotCallbacks(confirm_slot_in(w1, i, slot_number, c.node_id, t).w,
                              i, slot_number, j + 1, t)
        ELSE IF c.on_new_slot_callbacks[j] = "integrate"
        THEN NewSlotCallbacks(on_new_slot_in(w1, i, t), i, slot_number, j + 1, t)
        ELSE NewSlotCallbacks(w1, i, slot_number, j + 1, t)

\* PoHConsensus.create_new_slot
create_new_slot_in(w, i, t) ==
    LET slot_number == w.consensus[i].current_slot_number + 1
        sel == select_leader_in([w EXCEPT !.consensus[i].current_slot_number = slot_number],
                                i, slot_number)
        leader_id == sel.ret
        latest_hash == latest_link(sel.w.gen)
        slot == PoHSlot(slot_number, latest_hash.counter, leader_id, t)
        c1 == [sel.w.consensus[i] EXCEPT
                  !.current_leader_id = leader_id,
                  !.is_leader = (leader_id = sel.w.consensus[i].node_id),
                  !.slots = Append(@, slot)]
        w1 == [sel.w EXCEPT !.consensus[i] = c1, !.gen = latest_gen(sel.w.gen)]
    IN  [w |-> NewSlotCallbacks(w1, i, slot_number, 1, t), ret |-> slot]

(***************************************************************************)
(* HeartbeatProtocol                                                       *)
(***************************************************************************)
\* whether the ed25519 module was importable; without it verify accepts any
\* signature that is present
HAVE_ED25519 == FALSE

\* the literal 1000 of "len(node.sequence_seen) > 1000", scaled
SeenLimit == 2

\* the literal 100 of "len(node.latency_samples) > 100", scaled
LatencyLimit == 2

\* the literal 1000 of "len(self.received_heartbeats) > 1000", scaled
ReceivedLimit == 2

\* node_timeout (constructor argument, seconds)
NodeTimeout == 1

\* "heartbeat.timestamp > current_time + 1.0"
ClockSkew == 1

\* the node_id the protocol was constructed with
HbSelf == "node1"

\* the peers register_node is called for, and the senders of heartbeats
HbPeers == {"n2"}
HbSenders == {"n2", "n3"}

\* signature: None, one made with the sender's key, one made with another key
Signatures == {"none", "valid", "forged"}

\* a heartbeat as far as process_heartbeat reads it
HeartbeatMessage(node_id, sequence, timestamp, signature) ==
    [node_id |-> node_id, sequence |-> sequence, timestamp |-> timestamp,
     signature |-> signature]

\* the heartbeats that may arrive at time t
HeartbeatInputs(t) ==
    {HeartbeatMessage(id, q, ts, sig) :
        id \in HbSenders, q \in 1..MaxSeq,
        ts \in {t, t + ClockSkew, t + ClockSkew + 1}, sig \in Signatures}

\* Optional[HeartbeatMessage] None
NoHeartbeat == << >>

NodeInfo(t, status) ==
    [last_heartbeat |-> NoHeartbeat, last_seen |-> t, sequence_seen |-> {},
     latency_samples |-> << >>, avg_latency |-> 0, status |-> status]

\* HeartbeatProtocol.register_node
register_node_hb(h, id, t) ==
    [h EXCEPT !.nodes = [n \in DOMAIN h.nodes \cup {id} |->
                            IF n = id
                            THEN NodeInfo(t, IF id = HbSelf THEN "active" ELSE "unknown")
                            ELSE h.nodes[n]]]

\* HeartbeatProtocol.__init__, which registers the node itself
HbInit ==
    register_node_hb([have_ed25519 |-> HAVE_ED25519, nodes |-> << >>,
                      received_heartbeats |-> << >>, dispatched |-> << >>],
                     HbSelf, 0)

\* HeartbeatProtocol.__init__ in an installation that has the ed25519 module
HbInitKeyed == [HbInit EXCEPT !.have_ed25519 = TRUE]

\* HeartbeatMessage.verify
verify_heartbeat(h, heartbeat) ==
    IF heartbeat.signature = "none" THEN FALSE
    ELSE IF ~h.have_ed25519 THEN TRUE
    ELSE heartbeat.signature = "valid"

\* set(sorted(s)[-n:])
KeepLargest(s, n) == {x \in s : Cardinality({y \in s : y > x}) < n}

\* sequence_seen after add(sequence) and the size limit
SeenAfter(seen, sequence) ==
    IF Cardinality(seen \cup {sequence}) > SeenLimit
    THEN KeepLargest(seen \cup {sequence}, SeenLimit)
    ELSE seen \cup {sequence}

\* process_heartbeat noting the sender as seen before the timestamp is looked at
process_heartbeat_in_eager(h, heartbeat, t) ==
    IF heartbeat.node_id \notin DOMAIN h.nodes THEN [hb |-> h, ret |-> FALSE]
    ELSE IF ~verify_heartbeat(h, heartbeat) THEN [hb |-> h, ret |-> FALSE]
    ELSE IF heartbeat.sequence \in h.nodes[heartbeat.node_id].sequence_seen
         THEN [hb |-> h, ret |-> FALSE]
    ELSE [hb |-> [h EXCEPT !.nodes[heartbeat.node_id].last_seen = t,
                           !.nodes[heartbeat.node_id].status = "active"],
          ret |-> FALSE]

\* HeartbeatProtocol.process_heartbeat at time t
process_heartbeat_in(h, heartbeat, t) ==
    IF heartbeat.node_id \notin DOMAIN h.nodes THEN [hb |-> h, ret |-> FALSE]
    ELSE LET node == h.nodes[heartbeat.node_id]
         IN  IF ~verify_heartbeat(h, heartbeat) THEN [hb |-> h, ret |-> FALSE]
             ELSE IF heartbeat.sequence \in node.sequence_seen THEN [hb |-> h, ret |-> FALSE]
             ELSE IF heartbeat.timestamp > t + ClockSkew THEN [hb |-> h, ret |-> FALSE]
             ELSE LET samples == LastN(Append(node.latency_samples, t - heartbeat.timestamp),
                                       LatencyLimit)
                      node1 == [last_heartbeat |-> heartbeat,
                                last_seen |-> t,
                                sequence_seen |-> SeenAfter(node.sequence_seen,
                                                            heartbeat.sequence),
                                latency_samples |-> samples,
                                avg_latency |-> SumSeq(samples) \div Len(samples),
                                status |-> "active"]
                  IN  [hb |-> [h EXCEPT
                                  !.nodes = [h.nodes EXCEPT ![heartbeat.node_id] = node1],
                                  !.received_heartbeats =
                                      LastN(Append(h.received_heartbeats, heartbeat),
                                            ReceivedLimit),
                                  !.dispatched =
                                      <<[event |-> "on_heartbeat", node |-> heartbeat.node_id]>>
                                      \o (IF node.status # "active"
                                          THEN <<[event |-> "on_node_status_change",
                                                  node |-> heartbeat.node_id]>>
                                          ELSE << >>)],
                       ret |-> TRUE]

\* the nodes check_node_timeouts marks at time t
TimedOut(h, t) ==
    {id \in DOMAIN h.nodes :
        id # HbSelf /\ h.nodes[id].status = "active" /\ t - h.nodes[id].last_seen > NodeTimeout}

(***************************************************************************)
(* RegionManager                                                           *)
(***************************************************************************)
\* the node ids in the order sorted() puts them
NodeOrder == <<"n1", "n2", "n3", "node1">>
Rank(id) == CHOOSE k \in 1..Len(NodeOrder) : NodeOrder[k] = id

\* sorted(s)[0]
SmallestOf(s) == CHOOSE x \in s : \A y \in s : Rank(x) <= Rank(y)

\* the node_id and primary_region the manager was constructed with
RmSelf == "node1"
PrimaryRegion == "R0"

\* the nodes and regions the operations are called with
RmNodeIds == {"n1", "n2", "n3"}
RegionIds == {"R0", "R1"}

\* the nodes add_secondary_region and remove_secondary_region are called with
SecondaryNodeIds == {"n1"}

RegionInfo(t) ==
    [coordinator_id |-> NoId, node_count |-> 0, active_nodes |-> {},
     connected_regions |-> {}, last_update |-> t]

NodeRegionInfo(primary_region, t) ==
    [primary_region |-> primary_region, secondary_regions |-> {},
     is_coordinator |-> FALSE, last_active |-> t]

\* dict[key] = value
Put(f, key, value) == [k \in DOMAIN f \cup {key} |-> IF k = key THEN value ELSE f[k]]

\* del dict[key]
Del(f, key) == [k \in DOMAIN f \ {key} |-> f[k]]

\* the coordinator-change callbacks, called with (region_id, coordinator_id)
CoordinatorChanged(r, region_id, coordinator_id) ==
    [r EXCEPT !.dispatched = Append(@, [event |-> "on_coordinator_change",
                                        region |-> region_id, node |-> coordinator_id])]

\* RegionManager.create_region
create_region_in(r, region_id, t) ==
    IF region_id \in DOMAIN r.regions THEN [rm |-> r, ret |-> FALSE]
    ELSE [rm |-> [r EXCEPT !.regions = Put(@, region_id, RegionInfo(t))], ret |-> TRUE]

\* RegionManager._select_coordinator
select_coordinator_in(r, region_id) ==
    IF region_id \notin DOMAIN r.regions THEN [rm |-> r, ret |-> NoId]
    ELSE LET region == r.regions[region_id]
         IN  IF region.active_nodes = {}
             THEN [rm |-> [r EXCEPT !.regions[region_id].coordinator_id = NoId], ret |-> NoId]
             ELSE IF Cardinality(region.active_nodes) = 1
             THEN LET coordinator_id == CHOOSE n \in region.active_nodes : TRUE
                      r1 == [r EXCEPT !.regions[region_id].coordinator_id = coordinator_id,
                                      !.nodes = [n \in DOMAIN r.nodes |->
                                                    IF n = coordinator_id
                                                    THEN [r.nodes[n] EXCEPT !.is_coordinator = TRUE]
                                                    ELSE r.nodes[n]]]
                  IN  [rm |-> CoordinatorChanged(r1, region_id, coordinator_id),
                       ret |-> coordinator_id]
             ELSE LET coordinator_id == SmallestOf(region.active_nodes)
                      flags == [n \in DOMAIN r.nodes |->
                                   IF n \in region.active_nodes
                                   THEN [r.nodes[n] EXCEPT
                                            !.is_coordinator = (n = coordinator_id)]
                                   ELSE r.nodes[n]]
                      r1 == [r EXCEPT !.regions[region_id].coordinator_id = coordinator_id,
                                      !.nodes = flags]
                  IN  [rm |-> IF region.coordinator_id # coordinator_id
                               THEN CoordinatorChanged(r1, region_id, coordinator_id)
                               ELSE r1,
                       ret |-> coordinator_id]

\* RegionManager.register_node
register_node_in(r, node_id, primary_region, t) ==
    LET r0 == create_region_in(r, primary_region, t).rm
        known == node_id \in DOMAIN r0.nodes
        old_region == r0.nodes[node_id].primary_region
        \* "Node is changing regions"
        left == [r0 EXCEPT
                    !.regions = [x \in DOMAIN r0.regions |->
                                    IF x = old_region
                                    THEN [r0.regions[x] EXCEPT
                                             !.active_nodes = @ \ {node_id},
                                             !.node_count = @ - 1,
                                             !.last_update = t]
                                    ELSE r0.regions[x]],
                    !.nodes[node_id].primary_region = primary_region,
                    !.nodes[node_id].last_active = t,
                    !.dispatched = Append(@, [event |-> "on_region_change",
                                              region |-> primary_region, node |-> node_id])]
        \* "New node"
        fresh == [r0 EXCEPT !.nodes = Put(@, node_id, NodeRegionInfo(primary_region, t))]
        r1 == IF known THEN left ELSE fresh
        \* "Add to region"
        r2 == [r1 EXCEPT !.regions[primary_region].active_nodes = @ \cup {node_id},
                         !.regions[primary_region].node_count = @ + 1,
                         !.regions[primary_region].last_update = t]
    IN  IF known /\ old_region = primary_region
        THEN [rm |-> [r0 EXCEPT !.nodes[node_id].last_active = t], ret |-> TRUE]
        ELSE [rm |-> IF r2.regions[primary_region].coordinator_id = NoId
                     THEN select_coordinator_in(r2, primary_region).rm
                     ELSE r2,
              ret |-> TRUE]

\* RegionManager.unregister_node
unregister_node_in(r, node_id, t) ==
    IF node_id \notin DOMAIN r.nodes THEN [rm |-> r, ret |-> FALSE]
    ELSE LET node_info == r.nodes[node_id]
             primary_region == node_info.primary_region
             r1 == [r EXCEPT !.regions[primary_region].active_nodes = @ \ {node_id},
                             !.regions[primary_region].node_count = @ - 1,
                             !.regions[primary_region].last_update = t]
             r2 == IF primary_region \notin DOMAIN r.regions THEN r
                   ELSE IF r.regions[primary_region].coordinator_id = node_id
                   THEN select_coordinator_in(
                            [r1 EXCEPT !.regions[primary_region].coordinator_id = NoId],
                            primary_region).rm
                   ELSE r1
             r3 == [r2 EXCEPT
                       !.regions = [x \in DOMAIN r2.regions |->
                                       IF x \in node_info.secondary_regions
                                       THEN [r2.regions[x] EXCEPT
                                                !.active_nodes = @ \ {node_id},
                                                !.last_update = t]
                                       ELSE r2.regions[x]]]
         IN  [rm |-> [r3 EXCEPT !.nodes = Del(@, node_id)], ret |-> TRUE]

\* RegionManager.add_secondary_region
add_secondary_region_in(r, node_id, region_id, t) ==
    IF node_id \notin DOMAIN r.nodes THEN [rm |-> r, ret |-> FALSE]
    ELSE IF region_id \notin DOMAIN r.regions THEN [rm |-> r, ret |-> FALSE]
    ELSE IF region_id = r.nodes[node_id].primary_region THEN [rm |-> r, ret |-> FALSE]
    ELSE IF region_id \in r.nodes[node_id].secondary_regions THEN [rm |-> r, ret |-> FALSE]
    ELSE [rm |-> [r EXCEPT !.nodes[node_id].secondary_regions = @ \cup {region_id},
                           !.regions[region_id].active_nodes = @ \cup {node_id},
                           !.regions[region_id].last_update = t],
          ret |-> TRUE]

\* RegionManager.remove_secondary_region
remove_secondary_region_in(r, node_id, region_id, t) ==
    IF node_id \notin DOMAIN r.nodes THEN [rm |-> r, ret |-> FALSE]
    ELSE IF region_id \notin r.nodes[node_id].secondary_regions THEN [rm |-> r, ret |-> FALSE]
    ELSE LET r1 == [r EXCEPT !.nodes[node_id].secondary_regions = @ \ {region_id}]
         IN  [rm |-> IF region_id \in DOMAIN r.regions
                     THEN [r1 EXCEPT !.regions[region_id].active_nodes = @ \ {node_id},
                                     !.regions[region_id].last_update = t]
                     ELSE r1,
              ret |-> TRUE]

\* connect_regions noting the connection on the side of the first region only
connect_regions_in_oneway(r, region_id1, region_id2, t) ==
    IF region_id1 \notin DOMAIN r.regions \/ region_id2 \notin DOMAIN r.regions
    THEN [rm |-> r, ret |-> FALSE]
    ELSE [rm |-> [r EXCEPT !.regions[region_id1].connected_regions = @ \cup {region_id2},
                           !.regions[region_id1].last_update = t],
          ret |-> TRUE]

\* RegionManager.connect_regions
connect_regions_in(r, region_id1, region_id2, t) ==
    IF region_id1 \notin DOMAIN r.regions \/ region_id2 \notin DOMAIN r.regions
           \/ region_id1 = region_id2
    THEN [rm |-> r, ret |-> FALSE]
    ELSE [rm |-> [r EXCEPT !.regions[region_id1].connected_regions = @ \cup {region_id2},
                           !.regions[region_id2].connected_regions = @ \cup {region_id1},
                           !.regions[region_id1].last_update = t,
                           !.regions[region_id2].last_update = t],
          ret |-> TRUE]

\* RegionManager.disconnect_regions
disconnect_regions_in(r, region_id1, region_id2, t) ==
    IF region_id1 \notin DOMAIN r.regions \/ region_id2 \notin DOMAIN r.regions
    THEN [rm |-> r, ret |-> FALSE]
    ELSE LET r1 == [r EXCEPT !.regions[region_id1].connected_regions = @ \ {region_id2},
                             !.regions[region_id1].last_update = t]
         IN  [rm |-> [r1 EXCEPT !.regions[region_id2].connected_regions = @ \ {region_id1},
                                !.regions[region_id2].last_update = t],
              ret |-> TRUE]

\* RegionManager.get_connected_regions
get_connected_regions(r, region_id) ==
    IF region_id \in DOMAIN r.regions THEN r.regions[region_id].connected_regions ELSE {}

\* RegionManager.__init__: the primary region is created and the node
\* registers itself; no callback is subscribed yet
RmInit ==
    LET r0 == [primary_region |-> PrimaryRegion, regions |-> << >>, nodes |-> << >>,
               dispatched |-> << >>]
        r1 == create_region_in(r0, PrimaryRegion, 0).rm
    IN  [register_node_in(r1, RmSelf, PrimaryRegion, 0).rm EXCEPT !.dispatched = << >>]

\* "inactive_timeout = 60.0", in time units
InactiveTimeout == 1

\* the nodes of s, one after the other (the sweep takes them as the dict
\* holds them; what the sweep leaves does not depend on the order)
NodeList(s) == SelectSeq(NodeOrder, LAMBDA n : n \in s)

\* RegionManager._check_inactive_nodes: the nodes it collects
inactive_nodes(r, t) ==
    {node_id \in DOMAIN r.nodes : t - r.nodes[node_id].last_active > InactiveTimeout}

RECURSIVE UnregisterAll(_, _, _, _)
UnregisterAll(r, nodes, j, t) ==
    IF j > Len(nodes) THEN r
    ELSE UnregisterAll(unregister_node_in(r, nodes[j], t).rm, nodes, j + 1, t)

\* RegionManager._check_inactive_nodes at time t
check_inactive_nodes_in(r, t) == UnregisterAll(r, NodeList(inactive_nodes(r, t)), 1, t)

\* RegionManager._check_coordinators: the regions it selects a coordinator for
lacks_coordinator(r) ==
    {region_id \in DOMAIN r.regions :
        r.regions[region_id].coordinator_id = NoId /\ r.regions[region_id].active_nodes # {}}

RECURSIVE SelectAll(_, _)
SelectAll(r, regions) ==
    IF regions = {} THEN r
    ELSE LET region_id == CHOOSE x \in regions : TRUE
         IN  SelectAll(select_coordinator_in(r, region_id).rm, regions \ {region_id})

\* RegionManager._check_coordinators
check_coordinators_in(r) == SelectAll(r, lacks_coordinator(r))

(***************************************************************************)
(* RegionSync                                                              *)
(***************************************************************************)
\* the literals 10000 and 5000 of the processed_message_ids limit, scaled
ProcessedLimit == 2
ProcessedKeep == 1

\* "time.time() - message.timestamp > 60.0", scaled
MessageMaxAge == 1

\* the message ids of delivered messages, and those of the messages RegionSync
\* creates itself (the default_factory draws a fresh one each time)
MessageIds == {"m1", "m2", "m3"}
FreshIds == <<"g1", "g2", "g3", "g4">>

\* the default handlers; poh_chain_request has none
HandledTypes == {"poh_slot", "poh_chain", "region_info", "node_info"}

\* the message types delivered, each with the kinds of data it is delivered with
Payloads ==
    {<<"poh_slot", "ok">>, <<"poh_slot", "empty">>, <<"poh_slot", "malformed">>,
     <<"poh_chain", "ok">>, <<"region_info", "ok">>, <<"node_info", "ok">>,
     <<"poh_chain_request", "ok">>}

\* message.data: kind "ok" carries what the handler of the type reads, kind
\* "empty" lacks the key the handler looks up, kind "malformed" holds under
\* that key a value that is not a dict
MessageData(kind, slot_number, region_id, node_id) ==
    [kind |-> kind, slot_number |-> slot_number, region_id |-> region_id,
     node_id |-> node_id]

SyncMessage(message_id, source_region, target_region, message_type, data, timestamp) ==
    [message_id |-> message_id, source_region |-> source_region,
     target_region |-> target_region, message_type |-> message_type,
     data |-> data, timestamp |-> timestamp]

\* the messages that may be delivered at time t
SyncInputs(t) ==
    {SyncMessage(id, "R1", tgt, p[1], MessageData(p[2], 1, "R1", "n1"), ts) :
        id \in MessageIds, tgt \in RegionIds, p \in Payloads,
        ts \in {t, Max(0, t - MessageMaxAge - 1)}}

\* RegionSync.__init__
SyncInit ==
    [outgoing_messages |-> << >>, incoming_messages |-> << >>,
     processed_message_ids |-> {}, created |-> 0]

\* what a handler runs in: RegionSync, its region manager, its consensus
SyncWorld == [sync |-> sync, rm |-> rm, consensus |-> consensus["a"]]

\* RegionSync.send_message
send_message_in(w, message) ==
    IF message.target_region \notin DOMAIN w.rm.regions THEN [w |-> w, ret |-> FALSE]
    ELSE IF message.target_region \notin get_connected_regions(w.rm, message.source_region)
    THEN [w |-> w, ret |-> FALSE]
    ELSE [w |-> [w EXCEPT !.sync.outgoing_messages = Append(@, message)], ret |-> TRUE]

\* a handler raises on a value that is not a dict (slot_data.get), before it
\* changed anything
handler_raises(message) == message.data.kind = "malformed"

\* PoHConsensus.get_slot(n) exists and is finalized
locally_finalized(c, n) == n \in DOMAIN c.slots /\ c.slots[n].is_finalized

\* RegionSync._handle_poh_slot
handle_poh_slot(w, message, t) ==
    IF message.data.kind = "empty" THEN w
    ELSE IF locally_finalized(w.consensus, message.data.slot_number) THEN w
    ELSE send_message_in(
             [w EXCEPT !.sync.created = @ + 1],
             SyncMessage(FreshIds[w.sync.created + 1], w.rm.primary_region,
                         message.source_region, "poh_chain_request",
                         MessageData("ok", message.data.slot_number, "", ""), t)).w

\* RegionSync._handle_poh_chain, which only logs
handle_poh_chain(w, message, t) == w

\* RegionSync._handle_region_info
handle_region_info(w, message, t) ==
    IF message.data.kind = "empty" THEN w
    ELSE LET region_id == message.data.region_id
             r1 == create_region_in(w.rm, region_id, t).rm
             r2 == IF region_id \notin get_connected_regions(r1, r1.primary_region)
                   THEN connect_regions_in(r1, r1.primary_region, region_id, t).rm
                   ELSE r1
         IN  [w EXCEPT !.rm = r2]

\* RegionSync._handle_node_info for a list of one node without secondary regions
handle_node_info(w, message, t) ==
    IF message.data.kind = "empty" THEN w
    ELSE [w EXCEPT !.rm = register_node_in(w.rm, message.data.node_id,
                                           message.data.region_id, t).rm]

\* self.message_handlers[message.message_type](message)
run_handler(w, message, t) ==
    IF message.message_type = "poh_slot" THEN handle_poh_slot(w, message, t)
    ELSE IF message.message_type = "poh_chain" THEN handle_poh_chain(w, message, t)
    ELSE IF message.message_type = "region_info" THEN handle_region_info(w, message, t)
    ELSE handle_node_info(w, message, t)

\* the sets set(list(ids)[-5000:]) can be: a set has no order of its own
Compactions(ids) ==
    IF Cardinality(ids) > ProcessedLimit
    THEN {kept \in SUBSET ids : Cardinality(kept) = ProcessedKeep}
    ELSE {ids}

\* the checks of process_message before it looks for a handler
rejects(w, message, t) ==
    \/ message.message_id \in w.sync.processed_message_ids
    \/ message.target_region # w.rm.primary_region
    \/ message.source_region \notin get_connected_regions(w.rm, message.target_region)
    \/ t - message.timestamp > MessageMaxAge

\* whether process_message calls a handler for the message
invokes(w, message, t) ==
    ~rejects(w, message, t) /\ message.message_type \in HandledTypes

\* process_message noting the message id as processed before its checks
process_message_in_marking(w, message, t, kept) ==
    IF ~invokes(w, message, t) \/ handler_raises(message)
    THEN [w |-> [w EXCEPT !.sync.processed_message_ids = @ \cup {message.message_id}],
          ret |-> FALSE]
    ELSE [w |-> [run_handler(w, message, t) EXCEPT !.sync.processed_message_ids = kept],
          ret |-> TRUE]

\* RegionSync.process_message at time t; kept is what the compaction keeps
process_message_in(w, message, t, kept) ==
    IF ~invokes(w, message, t) THEN [w |-> w, ret |-> FALSE]
    ELSE IF handler_raises(message) THEN [w |-> w, ret |-> FALSE]
    ELSE [w |-> [run_handler(w, message, t) EXCEPT !.sync.processed_message_ids = kept],
          ret |-> TRUE]

(***************************************************************************)
(* Threads and the components' locks                                       *)
(***************************************************************************)
\* the classes that create "self.lock = threading.Lock()" in __init__
Components ==
    {"PoHGenerator", "PoHConsensus", "RegionManager", "RegionSync", "HeartbeatProtocol"}

\* a method of an object of class cls, with the arguments of the call
Method(cls, name, arg) == [cls |-> cls, name |-> name, arg |-> arg]

\* the methods whose body is not a "with self.lock" block
Lockless ==
    {"_run", "_on_new_slot", "_on_slot_finalized", "_handle_poh_slot", "_handle_poh_chain",
     "_handle_region_info", "_handle_node_info"}

\* the lock a method takes on entry, "none" if it takes none
LockOf(m) == IF m.name \in Lockless THEN "none" ELSE m.cls

\* a frame of a call stack: the method, the number k of calls its body made
\* that have returned, and whether the thread is inside the body (past
\* "with self.lock")
Frame(m) ==
    [cls |-> m.cls, name |-> m.name, arg |-> m.arg, k |-> 0, inside |-> LockOf(m) = "none"]

\* no lock is held, no thread is in a call, no background loop was started
\* ("self.running = False")
SchedInit ==
    [holder |-> [c \in Components |-> "free"], stack |-> [t \in Threads |-> << >>],
     running |-> [c \in Components |-> FALSE]]

(***************************************************************************)
(* Actions of the pulse generator                                          *)
(***************************************************************************)
Init ==
    /\ gen = GenInit
    /\ issued = << >>
    /\ imports = 0
    /\ returned = 0
    /\ op = [name |-> "init", thread |-> "t1", arg |-> << >>, ret |-> << >>]
    /\ consensus \in ConsensusInits
    /\ fired = << >>
    /\ now = 0
    /\ hb = HbInit
    /\ accepted = [id \in HbSenders |-> [q \in 1..MaxSeq |-> 0]]
    /\ rm = RmInit
    /\ sync = SyncInit
    /\ invoked = [id \in MessageIds |-> 0]
    /\ integrator = IntegratorInit
    /\ sched = SchedInit

\* a thread calls next(env_data)
next(t, env_data) ==
    /\ gen.counter < MaxCounter
    /\ gen' = NextGen(gen, env_data)
    /\ issued' = IF imports = 0 THEN Append(issued, NextLink(gen, env_data)) ELSE issued
    /\ returned' = NextLink(gen, env_data).counter
    /\ op' = [name |-> "next", thread |-> t, arg |-> <<env_data>>,
              ret |-> <<NextLink(gen, env_data)>>]
    /\ UNCHANGED <<imports, consensus, fired, now, net_vars, integrator, sched>>

\* a thread calls get_latest_hash()
get_latest_hash(t) ==
    /\ gen.hash_chain = << >> => gen.counter < MaxCounter
    /\ gen' = latest_gen(gen)
    /\ issued' = IF gen.hash_chain = << >> /\ imports = 0
                 THEN Append(issued, NextLink(gen, 0))
                 ELSE issued
    /\ returned' = IF gen.hash_chain = << >> THEN NextLink(gen, 0).counter ELSE returned
    /\ op' = [name |-> "get_latest_hash", thread |-> t, arg |-> << >>,
              ret |-> <<latest_link(gen)>>]
    /\ UNCHANGED <<imports, consensus, fired, now, net_vars, integrator, sched>>

\* what the last call's argument was, for import_chain: the batch's length, the
\* positions of the links that do not pass verify, and whether the batch is
\* export_chain(0, len) of the ring the call found
link_fails(d) == from_dict_raises(d) \/ verify_raises(from_dict(d)) \/ ~verify(from_dict(d))

batch_summary(g, chain_data) ==
    [len |-> Len(chain_data),
     failing |-> {i \in 1..Len(chain_data) : link_fails(chain_data[i])},
     own_prefix |-> chain_data # << >> /\ chain_data = export_chain(g, 0, Len(chain_data))]

\* a thread calls import_chain(chain_data)
import_chain(chain_data) ==
    /\ imports < MaxImports
    /\ imports' = imports + 1
    /\ gen' = import_chain_gen(gen, chain_data)
    /\ op' = [name |-> "import_chain", thread |-> "t1",
              arg |-> <<batch_summary(gen, chain_data)>>,
              ret |-> <<import_accepts(chain_data)>>]
    /\ issued' = << >>
    /\ UNCHANGED <<returned, consensus, fired, now, net_vars, integrator, sched>>

NextGenerator ==
    \/ \E t \in Threads, d \in {0} \cup EnvPayloads : next(t, d)
    \/ \E t \in Threads : get_latest_hash(t)
    \/ \E b \in ImportInputs(gen) : import_chain(b)

SpecGen == Init /\ [][NextGenerator]_vars

\* the links verify is called with: those of the ring, and each of them with
\* the counter set to 0, without prev_hash, without env_data_hash, with
\* another hash, and with the counter of the link before
Tampered(l) ==
    {l,
     [l EXCEPT !.counter = 0],
     [l EXCEPT !.prev_hash = << >>],
     [l EXCEPT !.prev_hash = << >>, !.counter = 0],
     [l EXCEPT !.env_data_hash = 0],
     [l EXCEPT !.hash = GenesisHash],
     [l EXCEPT !.counter = @ - 1]}

VerifyInputs(g) ==
    UNION {Tampered(g.hash_chain[i]) : i \in 1..Len(g.hash_chain)}

\* a call of verify ends by returning True or False or by raising
verify_outcome(l) ==
    IF verify_raises(l) THEN "OverflowError"
    ELSE IF verify(l) THEN "True" ELSE "False"

\* a thread calls verify(poh_hash), which reads no state of the generator
verify_call(l) ==
    /\ op' = [name |-> "verify", thread |-> "t1", arg |-> <<l>>,
              ret |-> <<verify_outcome(l)>>]
    /\ UNCHANGED <<gen_vars, consensus, fired, now, net_vars, integrator, sched>>

NextVerify ==
    \/ \E d \in {0} \cup EnvPayloads : next("t1", d)
    \/ \E l \in VerifyInputs(gen) : verify_call(l)

SpecVerify == Init /\ [][NextVerify]_vars

(***************************************************************************)
(* Actions of the consensus                                                *)
(***************************************************************************)
\* the links next() returned between generator states g0 and g1 of one
\* consensus method, which calls it at most RingLimit times
Produced(g0, g1) == LastN(g1.hash_chain, g1.counter - g0.counter)

\* the variables after a consensus method, which may have called
\* get_latest_hash on an empty ring and run the subscribed callbacks
Commit(r) ==
    /\ consensus' = r.w.consensus
    /\ fired' = r.w.fired
    /\ gen' = r.w.gen
    /\ integrator' = r.w.integrator
    /\ issued' = IF imports = 0 THEN issued \o Produced(gen, r.w.gen) ELSE issued
    /\ returned' = IF r.w.gen.counter > gen.counter THEN r.w.gen.counter ELSE returned
    /\ UNCHANGED <<imports, now, net_vars, sched>>

EmptyRingGuard == gen.hash_chain = << >> => gen.counter < MaxCounter

register_leader(i, id, stake) ==
    /\ consensus' = [consensus EXCEPT ![i].leaders = register_leader_in(@, id, stake)]
    /\ UNCHANGED <<gen_vars, op, fired, now, net_vars, integrator, sched>>

register_validator(i, id) ==
    /\ consensus' = [consensus EXCEPT ![i].validators = @ \cup {id}]
    /\ UNCHANGED <<gen_vars, op, fired, now, net_vars, integrator, sched>>

select_leader(i, slot_number) ==
    /\ EmptyRingGuard
    /\ \A k \in 1..Len(consensus[i].leaders) :
           consensus[i].leaders[k].consecutive_slots < MaxStreak
    /\ Commit(select_leader_in(World, i, slot_number))
    /\ UNCHANGED op

create_new_slot(i) ==
    /\ EmptyRingGuard
    /\ consensus[i].current_slot_number < MaxSlots
    /\ Commit(create_new_slot_in(World, i, now))
    /\ UNCHANGED op

\* a thread calls finalize_slot(slot_number)
finalize_slot(t, i, slot_number) ==
    /\ EmptyRingGuard
    /\ Commit(finalize_slot_in(World, i, slot_number, now))
    /\ op' = [name |-> "finalize_slot", thread |-> t, arg |-> <<slot_number>>,
              ret |-> <<finalize_slot_in(World, i, slot_number, now).ret>>]

\* a call of confirm_slot(slot_number, validator_id); op keeps, with the
\* arguments, whether the slot held the validator's confirmation already
confirm_slot(i, slot_number, validator_id) ==
    /\ EmptyRingGuard
    /\ Commit(confirm_slot_in(World, i, slot_number, validator_id, now))
    /\ op' = [name |-> "confirm_slot", thread |-> "t1",
              arg |-> <<slot_number, validator_id,
                        slot_number \in DOMAIN consensus[i].slots
                           /\ validator_id \in consensus[i].slots[slot_number].confirmations>>,
              ret |-> <<confirm_slot_in(World, i, slot_number, validator_id, now).ret>>]

\* time passes
Tick ==
    /\ now < MaxTime
    /\ now' = now + 1
    /\ UNCHANGED <<gen_vars, op, cons_vars, net_vars, integrator, sched>>

NextConsensus ==
    \/ register_leader("a", "L2", 1)
    \/ \E id \in ValidatorInputs(consensus["a"].validators) : register_validator("a", id)
    \/ create_new_slot("a")
    \/ \E t \in Threads, n \in 1..(MaxSlots + 1) : finalize_slot(t, "a", n)
    \/ \E n \in 1..(MaxSlots + 1), v \in ConfirmerIds : confirm_slot("a", n, v)

Spec == Init /\ [][NextConsensus]_vars

\* two consensus instances on one pulse chain, each registering leaders and
\* selecting leaders on its own
NextElect ==
    \/ \E i \in Instances, id \in LeaderIds, stake \in Stakes : register_leader(i, id, stake)
    \/ \E i \in Instances, n \in 1..MaxSlots : select_leader(i, n)
    \/ create_new_slot("a")

SpecElect == Init /\ [][NextElect]_vars

\* one consensus instance and the callers of the pulse generator it shares:
\* slots are created, confirmed and finalized while pulses are produced and
\* well-formed chains, its own and a peer's, are imported
NextShared ==
    \/ next("t1", 0)
    \/ \E b \in OwnExports(gen) \cup PeerExports : import_chain(b)
    \/ create_new_slot("a")
    \/ \E n \in 1..MaxSlots, v \in ConfirmerIds : confirm_slot("a", n, v)
    \/ \E n \in 1..MaxSlots : finalize_slot("t1", "a", n)

SpecShared == Init /\ [][NextShared]_vars

\* select_leader called over and over, as its callers may
select_leader_run(i, slot_number) ==
    /\ EmptyRingGuard
    /\ \A k \in 1..Len(consensus[i].leaders) :
           consensus[i].leaders[k].consecutive_slots < MaxRepeat
    /\ Commit(select_leader_in(World, i, slot_number))
    /\ UNCHANGED op

\* one consensus instance with one leader that is selected again and again
\* while its slots are confirmed
NextStreak ==
    \/ register_leader("a", "L2", 1)
    \/ create_new_slot("a")
    \/ \E n \in 1..MaxSlots : select_leader_run("a", n)
    \/ \E n \in 1..MaxSlots : confirm_slot("a", n, "v1")
    \/ \E n \in 1..MaxSlots : finalize_slot("t1", "a", n)

SpecStreak == Init /\ [][NextStreak]_vars

\* the stakes leaders register with, and register again with, in a long run
RunStakes == {1, 3, 4}

\* a node that has been running for a while: leader L2 registered and led
\* slots 1 and 2, the pulse advanced by target_hashes_per_slot, the second
\* time with payload env_data, and validator v1 confirmed both slots, which
\* finalized them on pace
Seasoned(env_data) ==
    LET w0 == [consensus |-> [i \in Instances |-> ConsensusInit(i, << >>, << >>)],
               gen |-> GenInit, fired |-> << >>, integrator |-> IntegratorInit]
        w1 == [w0 EXCEPT !.consensus["a"].leaders = register_leader_in(@, "L2", 3)]
        w2 == create_new_slot_in(w1, "a", 0).w
        w3 == create_new_slot_in(w2, "a", 0).w
        w4 == [w3 EXCEPT !.gen = NextGen(NextGen(@, 0), env_data)]
        w5 == confirm_slot_in(w4, "a", 1, "v1", 0).w
    IN  confirm_slot_in(w5, "a", 2, "v1", 0).w

\* the state after construction, or the state of the node that has been
\* running, one time unit after its slots were finalized
InitRotate ==
    \/ Init
    \/ /\ \E env_data \in {0} \cup EnvPayloads :
              /\ consensus = Seasoned(env_data).consensus
              /\ gen = Seasoned(env_data).gen
              /\ fired = Seasoned(env_data).fired
              /\ issued = <<NextLink(GenInit, 0), NextLink(NextGen(GenInit, 0), 0),
                            NextLink(NextGen(NextGen(GenInit, 0), 0), env_data)>>
              /\ returned = Seasoned(env_data).gen.counter
       /\ imports = 0
       /\ op = [name |-> "confirm_slot", thread |-> "t1", arg |-> <<2, "v1", FALSE>>,
                ret |-> <<TRUE>>]
       /\ now = 1
       /\ hb = HbInit
       /\ accepted = [id \in HbSenders |-> [q \in 1..MaxSeq |-> 0]]
       /\ rm = RmInit
       /\ sync = SyncInit
       /\ invoked = [id \in MessageIds |-> 0]
       /\ integrator = IntegratorInit
       /\ sched = SchedInit

\* create_new_slot in a long run of slots
create_new_slot_run(i) ==
    /\ EmptyRingGuard
    /\ consensus[i].current_slot_number < MaxRun
    /\ Commit(create_new_slot_in(World, i, now))
    /\ UNCHANGED op

\* one consensus instance creating slot after slot while leaders register and
\* register again
NextRotate ==
    \/ \E id \in LeaderIds, stake \in RunStakes : register_leader("a", id, stake)
    \/ create_new_slot_run("a")

SpecRotate == InitRotate /\ [][NextRotate]_vars

(***************************************************************************)
(* Actions of the environmental data integrator                            *)
(***************************************************************************)
\* an EnvDataIntegrator constructed on the bare consensus of instance "a":
\* its __init__ subscribes _on_new_slot
InitEnv ==
    /\ gen = GenInit
    /\ issued = << >>
    /\ imports = 0
    /\ returned = 0
    /\ op = [name |-> "init", thread |-> "t1", arg |-> << >>, ret |-> << >>]
    /\ consensus = [i \in Instances |->
                       ConsensusInit(i, IF i = "a" THEN <<"integrate">> ELSE << >>, << >>)]
    /\ fired = << >>
    /\ now = 0
    /\ hb = HbInit
    /\ accepted = [id \in HbSenders |-> [q \in 1..MaxSeq |-> 0]]
    /\ rm = RmInit
    /\ sync = SyncInit
    /\ invoked = [id \in MessageIds |-> 0]
    /\ integrator = IntegratorInit
    /\ sched = SchedInit

\* what the integrator's own methods do not touch
env_frame == <<gen_vars, op, cons_vars, now, net_vars, sched>>

add_source(source_id) ==
    /\ integrator' = add_source_in(integrator, source_id)
    /\ UNCHANGED env_frame

remove_source(source_id) ==
    /\ integrator' = remove_source_in(integrator, source_id)
    /\ UNCHANGED env_frame

\* the integrator's thread collects, leader or not
collect_all_data ==
    /\ integrator' = collect_all_data_in(integrator, now)
    /\ UNCHANGED env_frame

\* create_new_slot of the consensus the integrator subscribed to
create_new_slot_env(i) ==
    /\ consensus[i].current_slot_number < MaxEnvSlots
    /\ Commit(create_new_slot_in(World, i, now))
    /\ UNCHANGED op

NextEnv ==
    \/ \E source_id \in SourceIds : add_source(source_id)
    \/ \E source_id \in SourceIds : remove_source(source_id)
    \/ collect_all_data
    \/ \E id \in LeaderIds : register_leader("a", id, 1)
    \/ create_new_slot_env("a")
    \/ Tick

SpecEnv == InitEnv /\ [][NextEnv]_vars

\* the data lists _integrate_by_type is called with for one source type
DataLists(n) == [1..n -> {EnvData(c, v) : c \in Confidences, v \in FieldValues}]

FuseInputs == UNION {DataLists(n) : n \in 1..MaxSamples}

\* integrate_data calls _integrate_by_type(data_list), which reads no state
\* of the integrator; one call per behaviour
integrate_by_type_call(data_list) ==
    /\ op.name = "init"
    /\ op' = [name |-> "_integrate_by_type", thread |-> "t1", arg |-> <<data_list>>,
              ret |-> <<integrate_by_type(data_list)>>]
    /\ UNCHANGED <<gen_vars, consensus, fired, now, net_vars, integrator, sched>>

NextFuse ==
    \E data_list \in (IF op.name = "init" THEN FuseInputs ELSE {}) :
        integrate_by_type_call(data_list)

SpecFuse == InitEnv /\ [][NextFuse]_vars

(***************************************************************************)
(* Actions of the heartbeat protocol                                       *)
(***************************************************************************)
heartbeat_register_node(id) ==
    /\ hb' = register_node_hb(hb, id, now)
    /\ accepted' = [accepted EXCEPT ![id] = [q \in 1..MaxSeq |-> 0]]
    /\ UNCHANGED <<gen_vars, op, cons_vars, now, rm, sync_vars, integrator, sched>>

\* HeartbeatProtocol.process_heartbeat, the call itself
process_heartbeat_step(heartbeat) ==
    LET r == process_heartbeat_in(hb, heartbeat, now)
    IN  /\ accepted[heartbeat.node_id][heartbeat.sequence] < MaxAccepts
        /\ hb' = [r.hb EXCEPT !.dispatched = IF r.ret THEN @ ELSE << >>]
        /\ accepted' = IF r.ret
                       THEN [accepted EXCEPT ![heartbeat.node_id][heartbeat.sequence] = @ + 1]
                       ELSE accepted
        /\ UNCHANGED <<gen_vars, cons_vars, now, rm, sync_vars, integrator, sched>>

process_heartbeat(heartbeat) ==
    /\ process_heartbeat_step(heartbeat)
    /\ UNCHANGED op

\* the same call, with the caller noting what it passed and what came back
process_heartbeat_call(heartbeat) ==
    /\ process_heartbeat_step(heartbeat)
    /\ op' = [name |-> "process_heartbeat", thread |-> "t1",
              arg |-> <<heartbeat.node_id, heartbeat.signature,
                        heartbeat.timestamp > now + ClockSkew>>,
              ret |-> <<process_heartbeat_in(hb, heartbeat, now).ret>>]

\* HeartbeatProtocol.check_node_timeouts, the call itself
check_node_timeouts_step ==
    /\ hb' = [hb EXCEPT
                 !.nodes = [id \in DOMAIN hb.nodes |->
                               IF id \in TimedOut(hb, now)
                               THEN [hb.nodes[id] EXCEPT !.status = "timeout"]
                               ELSE hb.nodes[id]],
                 !.dispatched = IF TimedOut(hb, now) = {} THEN << >>
                                ELSE <<[event |-> "on_node_status_change",
                                        node |-> CHOOSE id \in TimedOut(hb, now) : TRUE]>>]
    /\ UNCHANGED <<gen_vars, cons_vars, now, accepted, rm, sync_vars, integrator, sched>>

check_node_timeouts ==
    /\ check_node_timeouts_step
    /\ UNCHANGED op

\* the same call, with the caller noting each node's status and whether its
\* last_seen was more than node_timeout ago before the call, and each node's
\* status and the callbacks after it
check_node_timeouts_call ==
    /\ check_node_timeouts_step
    /\ op' = [name |-> "check_node_timeouts", thread |-> "t1",
              arg |-> <<[id \in DOMAIN hb.nodes |->
                           [status |-> hb.nodes[id].status,
                            overdue |-> now - hb.nodes[id].last_seen > NodeTimeout]]>>,
              ret |-> <<[id \in DOMAIN hb.nodes |-> hb'.nodes[id].status], hb'.dispatched>>]

NextHeartbeat ==
    \/ \E id \in HbPeers : heartbeat_register_node(id)
    \/ \E heartbeat \in HeartbeatInputs(now) : process_heartbeat(heartbeat)
    \/ check_node_timeouts
    \/ Tick

SpecHeartbeat == Init /\ [][NextHeartbeat]_vars

\* the heartbeats delivered when the timeouts are looked at: signed, on time,
\* from the registered peer and from a stranger
TimeoutInputs(t) ==
    {HeartbeatMessage(id, q, t, "valid") : id \in HbSenders, q \in {1, 2}}

\* the timer's check_node_timeouts among registrations and heartbeats
NextTimeout ==
    \/ \E id \in HbPeers : heartbeat_register_node(id)
    \/ \E heartbeat \in TimeoutInputs(now) : process_heartbeat(heartbeat)
    \/ check_node_timeouts_call
    \/ Tick

SpecTimeout == Init /\ [][NextTimeout]_vars

\* the heartbeats delivered when the rejections are looked at: from the
\* registered peer and from a stranger, on time and from the future, with
\* each kind of signature
DropInputs(t) ==
    {HeartbeatMessage(id, q, ts, sig) :
        id \in HbSenders, q \in {1, 2},
        ts \in {t, t + ClockSkew + 1}, sig \in Signatures}

\* a protocol instance in either installation, with or without the ed25519 module
InitKeyed ==
    /\ gen = GenInit
    /\ issued = << >>
    /\ imports = 0
    /\ returned = 0
    /\ op = [name |-> "init", thread |-> "t1", arg |-> << >>, ret |-> << >>]
    /\ consensus \in ConsensusInits
    /\ fired = << >>
    /\ now = 0
    /\ hb \in {HbInit, HbInitKeyed}
    /\ accepted = [id \in HbSenders |-> [q \in 1..MaxSeq |-> 0]]
    /\ rm = RmInit
    /\ sync = SyncInit
    /\ invoked = [id \in MessageIds |-> 0]
    /\ integrator = IntegratorInit
    /\ sched = SchedInit

NextDrop ==
    \/ \E id \in HbPeers : heartbeat_register_node(id)
    \/ \E heartbeat \in DropInputs(now) : process_heartbeat_call(heartbeat)
    \/ Tick

SpecDrop == InitKeyed /\ [][NextDrop]_vars

(***************************************************************************)
(* Actions of the region manager                                           *)
(***************************************************************************)
\* what the region manager's methods do not touch
rm_frame == <<gen_vars, op, cons_vars, now, hb_vars, sync_vars, integrator, sched>>

\* a public method is entered; dispatched holds the callbacks of one call
RmCall == [rm EXCEPT !.dispatched = << >>]

create_region(region_id) ==
    /\ rm' = create_region_in(RmCall, region_id, now).rm
    /\ UNCHANGED rm_frame

register_node(node_id, primary_region) ==
    /\ rm' = register_node_in(RmCall, node_id, primary_region, now).rm
    /\ UNCHANGED rm_frame

unregister_node(node_id) ==
    /\ rm' = unregister_node_in(RmCall, node_id, now).rm
    /\ UNCHANGED rm_frame

add_secondary_region(node_id, region_id) ==
    /\ rm' = add_secondary_region_in(RmCall, node_id, region_id, now).rm
    /\ UNCHANGED rm_frame

remove_secondary_region(node_id, region_id) ==
    /\ rm' = remove_secondary_region_in(RmCall, node_id, region_id, now).rm
    /\ UNCHANGED rm_frame

connect_regions(region_id1, region_id2) ==
    /\ rm' = connect_regions_in(RmCall, region_id1, region_id2, now).rm
    /\ UNCHANGED rm_frame

disconnect_regions(region_id1, region_id2) ==
    /\ rm' = disconnect_regions_in(RmCall, region_id1, region_id2, now).rm
    /\ UNCHANGED rm_frame

NextRegion ==
    \/ \E region_id \in RegionIds : create_region(region_id)
    \/ \E node_id \in RmNodeIds, region_id \in RegionIds : register_node(node_id, region_id)
    \/ \E node_id \in RmNodeIds \cup {RmSelf} : unregister_node(node_id)
    \/ \E node_id \in SecondaryNodeIds, region_id \in RegionIds :
           add_secondary_region(node_id, region_id)
    \/ \E node_id \in SecondaryNodeIds, region_id \in RegionIds :
           remove_secondary_region(node_id, region_id)
    \/ \E region_id1 \in RegionIds, region_id2 \in RegionIds :
           connect_regions(region_id1, region_id2)
    \/ \E region_id1 \in RegionIds, region_id2 \in RegionIds :
           disconnect_regions(region_id1, region_id2)

SpecRegion == Init /\ [][NextRegion]_vars

(***************************************************************************)
(* Actions of the region synchronisation                                   *)
(***************************************************************************)
\* RegionSync.process_message, the call itself
process_message_step(message) ==
    /\ invoked[message.message_id] < MaxInvocations
    /\ sync.created < MaxCreated
    /\ \E kept \in Compactions(sync.processed_message_ids \cup {message.message_id}) :
           LET completes == invokes(SyncWorld, message, now) /\ ~handler_raises(message)
               r == process_message_in(
                        IF completes THEN [SyncWorld EXCEPT !.rm = RmCall] ELSE SyncWorld,
                        message, now, kept)
           IN  /\ sync' = r.w.sync
               /\ rm' = r.w.rm
    /\ invoked' = IF invokes(SyncWorld, message, now)
                  THEN [invoked EXCEPT ![message.message_id] = @ + 1]
                  ELSE invoked
    /\ UNCHANGED <<gen_vars, cons_vars, now, hb_vars, integrator, sched>>

process_message(message) ==
    /\ process_message_step(message)
    /\ UNCHANGED op

\* the same call, with the caller noting what it passed and what came back
process_message_call(message) ==
    /\ process_message_step(message)
    /\ op' = [name |-> "process_message", thread |-> "t1",
              arg |-> <<message.message_id, message.target_region,
                        message.message_type, now - message.timestamp>>,
              ret |-> <<process_message_in(SyncWorld, message, now,
                                           sync.processed_message_ids).ret>>]

NextSync ==
    \/ \E message \in SyncInputs(now) : process_message(message)
    \/ \E region_id \in RegionIds : connect_regions(PrimaryRegion, region_id)
    \/ \E region_id \in RegionIds : disconnect_regions(PrimaryRegion, region_id)
    \/ create_region("R1")
    \/ Tick

SpecSync == Init /\ [][NextSync]_vars

\* the messages delivered when the rejections are looked at: for this region
\* and for another, fresh and old, of two handled types
RefusedPayloads == {<<"region_info", "ok">>, <<"node_info", "ok">>}
RefusalInputs(t) ==
    {SyncMessage(id, "R1", tgt, p[1], MessageData(p[2], 1, "R1", "n1"), ts) :
        id \in {"m1", "m2"}, tgt \in RegionIds, p \in RefusedPayloads,
        ts \in {t, Max(0, t - MessageMaxAge - 1)}}

NextRefusal ==
    \/ \E message \in RefusalInputs(now) : process_message_call(message)
    \/ connect_regions(PrimaryRegion, "R1")
    \/ disconnect_regions(PrimaryRegion, "R1")
    \/ create_region("R1")
    \/ Tick

SpecRefusal == Init /\ [][NextRefusal]_vars

\* the messages delivered when the serving of chain requests is looked at:
\* chain requests and slot summaries of the peer region
ServedPayloads == {<<"poh_chain_request", "ok">>, <<"poh_slot", "ok">>}
ServeInputs(t) ==
    {SyncMessage(id, "R1", tgt, p[1], MessageData(p[2], 1, "R1", "n1"), ts) :
        id \in {"m1", "m2"}, tgt \in RegionIds, p \in ServedPayloads,
        ts \in {t, Max(0, t - MessageMaxAge - 1)}}

NextServe ==
    \/ \E message \in ServeInputs(now) : process_message_call(message)
    \/ connect_regions(PrimaryRegion, "R1")
    \/ disconnect_regions(PrimaryRegion, "R1")
    \/ create_region("R1")
    \/ Tick

SpecServe == Init /\ [][NextServe]_vars

(***************************************************************************)
(* Calls, thread by thread and lock by lock                                *)
(*                                                                         *)
(* A thread enters a method, waits for the method's lock, runs the body,   *)
(* which may call further methods, and returns, releasing the lock.  The   *)
(* assignments of a call are applied together when the outermost call      *)
(* returns; until then its lock keeps them from the other threads.  The    *)
(* slot number create_new_slot raises before its first call is raised at   *)
(* that call.                                                              *)
(***************************************************************************)
Top(t) == sched.stack[t][Len(sched.stack[t])]

\* subscribers that ask the heartbeat protocol for its status
CallbackCalls_status(cbs, name, arg) ==
    [j \in 1..Len(cbs) |-> Method("HeartbeatProtocol", "get_status", << >>)]

\* the callbacks a list of subscribers stands for: a ValidatorNode's, or
\* another subscriber's that calls nothing
CallbackCalls(cbs, name, arg) ==
    [j \in 1..Len(cbs) |->
        Method(IF cbs[j] = "confirm" THEN "ValidatorNode" ELSE "Subscriber", name, arg)]

\* list(connected_regions) of the manager's one other region
RegionList(s) == IF s = {} THEN << >> ELSE <<CHOOSE x \in s : TRUE>>

\* the messages broadcast_message creates, one per connected region
BroadcastMessages(message_type) ==
    LET targets == RegionList(get_connected_regions(rm, rm.primary_region))
    IN  [j \in 1..Len(targets) |->
            SyncMessage(FreshIds[sync.created + j], rm.primary_region, targets[j],
                        message_type, MessageData("ok", 1, rm.primary_region, RmSelf),
                        now)]

\* the poh_chain_request _handle_poh_slot sends back
ChainRequest(message) ==
    SyncMessage(FreshIds[sync.created + 1], rm.primary_region, message.source_region,
                "poh_chain_request", MessageData("ok", message.data.slot_number, "", ""),
                now)

\* the calls the body of a method makes, in order, in the present state
body_calls(m) ==
    LET c == consensus["a"]
        none == << >>
    IN  CASE m.cls = "PoHGenerator" /\ m.name = "get_latest_hash" ->
                 \* "if not self.hash_chain: return self.next()"
                 IF gen.hash_chain = << >>
                 THEN <<Method("PoHGenerator", "next", <<0>>)>> ELSE none
          [] m.cls = "PoHConsensus" /\ m.name = "select_leader" ->
                 IF c.leaders = << >> THEN none
                 ELSE <<Method("PoHGenerator", "get_latest_hash", << >>)>>
          [] m.cls = "PoHConsensus" /\ m.name = "create_new_slot" ->
                 \* "self.current_slot_number += 1" precedes the first call
                 LET slot_number == IF m.k = 0 THEN c.current_slot_number + 1
                                    ELSE c.current_slot_number
                 IN  <<Method("PoHConsensus", "select_leader", <<slot_number>>),
                       Method("PoHGenerator", "get_latest_hash", << >>)>>
                        \o CallbackCalls(c.on_new_slot_callbacks, "_on_new_slot",
                                         <<slot_number,
                                           select_leader_in(World, "a", slot_number).ret>>)
          [] m.cls = "PoHConsensus" /\ m.name = "confirm_slot" ->
                 IF m.arg[1] \in DOMAIN c.slots /\ ~c.slots[m.arg[1]].is_finalized
                 THEN <<Method("PoHConsensus", "finalize_slot",
                               <<m.arg[1], {m.arg[2]}>>)>>
                 ELSE none
          [] m.cls = "PoHConsensus" /\ m.name = "finalize_slot" ->
                 \* m.arg[2]: the confirmation the calling confirm_slot just added
                 IF /\ m.arg[1] \in DOMAIN c.slots
                    /\ ~c.slots[m.arg[1]].is_finalized
                    /\ Cardinality(c.slots[m.arg[1]].confirmations \cup m.arg[2])
                          >= required_confirmations(c.validators)
                 THEN <<Method("PoHGenerator", "get_latest_hash", << >>)>>
                         \o CallbackCalls(c.on_slot_finalized_callbacks,
                                          "_on_slot_finalized", <<m.arg[1]>>)
                 ELSE none
          [] m.cls = "PoHConsensus" /\ m.name = "_run" ->
                 \* "self.create_new_slot()" before the loop, and in the loop
                 \* "while self.running"
                 [j \in 1..(IF sched.running["PoHConsensus"] THEN MaxSlots ELSE Max(1, m.k)) |->
                     Method("PoHConsensus", "create_new_slot", << >>)]
          [] m.cls = "PoHGenerator" /\ m.name = "_run" ->
                 \* "while self.running: self.next()"
                 [j \in 1..(IF sched.running["PoHGenerator"]
                            THEN Max(m.k, MaxPulses - gen.counter) ELSE m.k) |->
                     Method("PoHGenerator", "next", <<0>>)]
          [] m.cls = "ValidatorNode" /\ m.name = "_on_new_slot" ->
                 \* "if slot.leader_id != self.node_id"
                 IF m.arg[2] # c.node_id
                 THEN <<Method("PoHConsensus", "confirm_slot", <<m.arg[1], c.node_id>>)>>
                 ELSE none
          [] m.cls = "RegionManager" /\ m.name = "register_node" ->
                 LET node_id == m.arg[1]
                     primary_region == m.arg[2]
                     exists == primary_region \in DOMAIN rm.regions
                     same == /\ node_id \in DOMAIN rm.nodes
                             /\ rm.nodes[node_id].primary_region = primary_region
                 IN  (IF exists THEN none
                      ELSE <<Method("RegionManager", "create_region", <<primary_region>>)>>)
                     \o (IF same THEN none
                         ELSE IF exists /\ rm.regions[primary_region].coordinator_id # NoId
                         THEN none
                         ELSE <<Method("RegionManager", "_select_coordinator",
                                       <<primary_region>>)>>)
          [] m.cls = "RegionManager" /\ m.name = "unregister_node" ->
                 \* "if region.coordinator_id == node_id"
                 IF /\ m.arg[1] \in DOMAIN rm.nodes
                    /\ rm.nodes[m.arg[1]].primary_region \in DOMAIN rm.regions
                    /\ rm.regions[rm.nodes[m.arg[1]].primary_region].coordinator_id = m.arg[1]
                 THEN <<Method("RegionManager", "_select_coordinator",
                               <<rm.nodes[m.arg[1]].primary_region>>)>>
                 ELSE none
          [] m.cls = "RegionManager" /\ m.name = "_check_inactive_nodes" ->
                 [j \in 1..Len(NodeList(inactive_nodes(rm, now))) |->
                     Method("RegionManager", "unregister_node",
                            <<NodeList(inactive_nodes(rm, now))[j]>>)]
          [] m.cls = "RegionManager" /\ m.name = "_check_coordinators" ->
                 [j \in 1..Len(RegionList(lacks_coordinator(rm))) |->
                     Method("RegionManager", "_select_coordinator",
                            <<RegionList(lacks_coordinator(rm))[j]>>)]
          [] m.cls = "RegionManager" /\ m.name = "_run" ->
                 \* one turn of "while self.running"
                 <<Method("RegionManager", "_check_inactive_nodes", << >>),
                   Method("RegionManager", "_check_coordinators", << >>)>>
          [] m.cls = "RegionSync" /\ m.name = "send_message" ->
                 IF m.arg[1].target_region \notin DOMAIN rm.regions THEN none
                 ELSE <<Method("RegionManager", "get_connected_regions",
                               <<m.arg[1].source_region>>)>>
          [] m.cls = "RegionSync" /\ m.name = "broadcast_message" ->
                 <<Method("RegionManager", "get_connected_regions", <<rm.primary_region>>)>>
                    \o [j \in 1..Len(BroadcastMessages(m.arg[1])) |->
                           Method("RegionSync", "send_message",
                                  <<BroadcastMessages(m.arg[1])[j]>>)]
          [] m.cls = "RegionSync" /\ m.name = "process_message" ->
                 LET message == m.arg[1]
                 IN  IF \/ message.message_id \in sync.processed_message_ids
                        \/ message.target_region # rm.primary_region
                     THEN none
                     ELSE <<Method("RegionManager", "get_connected_regions",
                                   <<message.target_region>>)>>
                             \o (IF invokes(SyncWorld, message, now)
                                 THEN <<Method("RegionSync",
                                               CASE message.message_type = "poh_slot"
                                                        -> "_handle_poh_slot"
                                                 [] message.message_type = "poh_chain"
                                                        -> "_handle_poh_chain"
                                                 [] message.message_type = "region_info"
                                                        -> "_handle_region_info"
                                                 [] OTHER -> "_handle_node_info",
                                               <<message>>)>>
                                 ELSE none)
          [] m.cls = "RegionSync" /\ m.name = "_handle_poh_slot" ->
                 LET message == m.arg[1]
                 IN  IF message.data.kind # "ok" THEN none
                     ELSE <<Method("PoHConsensus", "get_slot", <<message.data.slot_number>>)>>
                             \o (IF locally_finalized(c, message.data.slot_number) THEN none
                                 ELSE <<Method("RegionSync", "send_message",
                                               <<ChainRequest(message)>>)>>)
          [] m.cls = "RegionSync" /\ m.name = "_handle_region_info" ->
                 LET region_id == m.arg[1].data.region_id
                 IN  IF m.arg[1].data.kind # "ok" THEN none
                     ELSE (IF region_id \in DOMAIN rm.regions THEN none
                           ELSE <<Method("RegionManager", "create_region", <<region_id>>)>>)
                          \o <<Method("RegionManager", "get_connected_regions",
                                      <<rm.primary_region>>)>>
                          \o (IF region_id \in get_connected_regions(rm, rm.primary_region)
                              THEN none
                              ELSE <<Method("RegionManager", "connect_regions",
                                            <<rm.primary_region, region_id>>)>>)
          [] m.cls = "RegionSync" /\ m.name = "_handle_node_info" ->
                 IF m.arg[1].data.kind # "ok" THEN none
                 ELSE <<Method("RegionManager", "register_node",
                               <<m.arg[1].data.node_id, m.arg[1].data.region_id>>)>>
          [] m.cls = "HeartbeatProtocol" /\ m.name = "get_status" ->
                 \* "active_nodes": len(self.get_active_nodes())
                 <<Method("HeartbeatProtocol", "get_active_nodes", << >>)>>
          [] m.cls = "HeartbeatProtocol" /\ m.name = "create_heartbeat" ->
                 \* "current_slot = self.poh_consensus.get_current_slot()" and,
                 \* if there is one, "self.poh_consensus.poh_generator.get_latest_hash()"
                 <<Method("PoHConsensus", "get_current_slot", << >>)>>
                    \o (IF c.current_slot_number \in DOMAIN c.slots
                        THEN <<Method("PoHGenerator", "get_latest_hash", << >>)>>
                        ELSE none)
          [] OTHER -> none

\* the components' state a call works on
LockWorld ==
    [gen |-> gen, consensus |-> consensus, fired |-> fired, integrator |-> integrator,
     rm |-> rm, sync |-> sync]

\* RegionSync.broadcast_message: every created message goes through send_message
RECURSIVE SendAll(_, _, _)
SendAll(w, messages, j) ==
    IF j > Len(messages) THEN [w |-> w, ret |-> 0]
    ELSE LET sent == send_message_in([w EXCEPT !.sync.created = @ + 1], messages[j])
             rest == SendAll(sent.w, messages, j + 1)
         IN  [w |-> rest.w, ret |-> rest.ret + (IF sent.ret THEN 1 ELSE 0)]

\* the generator after k calls of next()
RECURSIVE Pulses(_, _)
Pulses(g, k) == IF k = 0 THEN g ELSE Pulses(NextGen(g, 0), k - 1)

\* the state after a call of method m at time t that is not made from
\* another method, and what it returns
Outcome(m, w, t) ==
    LET cw == [consensus |-> w.consensus, gen |-> w.gen, fired |-> w.fired,
               integrator |-> w.integrator]
        sw == [sync |-> w.sync, rm |-> [w.rm EXCEPT !.dispatched = << >>],
               consensus |-> w.consensus["a"]]
        OfConsensus(r) ==
            [w |-> [w EXCEPT !.consensus = r.w.consensus, !.gen = r.w.gen,
                             !.fired = r.w.fired, !.integrator = r.w.integrator],
             ret |-> <<r.ret>>]
        OfManager(r) == [w |-> [w EXCEPT !.rm = r.rm], ret |-> <<r.ret>>]
        OfSync(r) == [w |-> [w EXCEPT !.sync = r.w.sync, !.rm = r.w.rm], ret |-> <<r.ret>>]
    IN  CASE m.cls = "PoHGenerator" /\ m.name = "next" ->
                 [w |-> [w EXCEPT !.gen = NextGen(@, m.arg[1])],
                  ret |-> <<NextLink(w.gen, m.arg[1])>>]
          [] m.cls = "PoHGenerator" /\ m.name = "get_latest_hash" ->
                 [w |-> [w EXCEPT !.gen = latest_gen(@)], ret |-> <<latest_link(w.gen)>>]
          [] m.cls = "PoHGenerator" /\ m.name = "_run" ->
                 [w |-> [w EXCEPT !.gen = Pulses(@, m.k)], ret |-> << >>]
          [] m.cls = "PoHConsensus" /\ m.name = "register_leader" ->
                 [w |-> [w EXCEPT !.consensus["a"].leaders =
                                      register_leader_in(@, m.arg[1], m.arg[2])],
                  ret |-> << >>]
          [] m.cls = "PoHConsensus" /\ m.name = "select_leader" ->
                 OfConsensus(select_leader_in(cw, "a", m.arg[1]))
          [] m.cls = "PoHConsensus" /\ m.name = "create_new_slot" ->
                 \* the slot number was raised when the body made its first call
                 OfConsensus(create_new_slot_in(
                                 [cw EXCEPT !.consensus["a"].current_slot_number = @ - 1],
                                 "a", t))
          [] m.cls = "PoHConsensus" /\ m.name = "confirm_slot" ->
                 OfConsensus(confirm_slot_in(cw, "a", m.arg[1], m.arg[2], t))
          [] m.cls = "RegionManager" /\ m.name = "create_region" ->
                 OfManager(create_region_in(sw.rm, m.arg[1], t))
          [] m.cls = "RegionManager" /\ m.name = "register_node" ->
                 OfManager(register_node_in(sw.rm, m.arg[1], m.arg[2], t))
          [] m.cls = "RegionManager" /\ m.name = "connect_regions" ->
                 OfManager(connect_regions_in(sw.rm, m.arg[1], m.arg[2], t))
          [] m.cls = "RegionManager" /\ m.name = "unregister_node" ->
                 OfManager(unregister_node_in(sw.rm, m.arg[1], t))
          [] m.cls = "RegionManager" /\ m.name = "_check_inactive_nodes" ->
                 [w |-> [w EXCEPT !.rm = check_inactive_nodes_in(sw.rm, t)], ret |-> << >>]
          [] m.cls = "RegionManager" /\ m.name = "_check_coordinators" ->
                 [w |-> [w EXCEPT !.rm = check_coordinators_in(sw.rm)], ret |-> << >>]
          [] m.cls = "RegionManager" /\ m.name = "_run" ->
                 [w |-> [w EXCEPT !.rm = check_coordinators_in(
                                             check_inactive_nodes_in(sw.rm, t))],
                  ret |-> << >>]
          [] m.cls = "RegionSync" /\ m.name = "send_message" ->
                 OfSync(send_message_in(sw, m.arg[1]))
          [] m.cls = "RegionSync" /\ m.name = "broadcast_message" ->
                 OfSync(SendAll(sw, BroadcastMessages(m.arg[1]), 1))
          [] m.cls = "RegionSync" /\ m.name = "process_message" ->
                 OfSync(process_message_in(sw, m.arg[1], t,
                                           w.sync.processed_message_ids
                                              \cup {m.arg[1].message_id}))
          [] m.cls = "HeartbeatProtocol" /\ m.name = "create_heartbeat" ->
                 \* the sender's own sequence number is no part of the state here
                 [w |-> [w EXCEPT !.gen =
                            IF w.consensus["a"].current_slot_number
                                  \in DOMAIN w.consensus["a"].slots
                            THEN latest_gen(@) ELSE @],
                  ret |-> << >>]
          [] OTHER -> [w |-> w, ret |-> << >>]

\* the state of the components is that of world w
Becomes(w) ==
    /\ gen' = w.gen
    /\ consensus' = w.consensus
    /\ fired' = w.fired
    /\ integrator' = w.integrator
    /\ rm' = w.rm
    /\ sync' = w.sync

\* the slot message another region delivers
SlotMessage ==
    SyncMessage("m1", "R1", PrimaryRegion, "poh_slot", MessageData("ok", 1, "R1", "n1"), 0)

\* the calls the threads make from outside
PublicCalls ==
    {Method("PoHGenerator", "next", <<0>>),
     Method("PoHGenerator", "get_latest_hash", << >>),
     Method("PoHConsensus", "register_leader", <<"L2", 1>>),
     Method("PoHConsensus", "select_leader", <<1>>),
     Method("PoHConsensus", "create_new_slot", << >>),
     Method("PoHConsensus", "confirm_slot", <<1, "v1">>),
     Method("PoHConsensus", "_run", << >>),
     Method("RegionManager", "create_region", <<"R1">>),
     Method("RegionManager", "register_node", <<"n1", "R1">>),
     Method("RegionManager", "connect_regions", <<PrimaryRegion, "R1">>),
     Method("RegionSync", "broadcast_message", <<"region_info">>),
     Method("RegionSync", "process_message", <<SlotMessage>>),
     Method("HeartbeatProtocol", "get_status", << >>)}

lock_frame == <<issued, imports, returned, op, now, hb_vars, invoked>>

\* thread t, in no call, calls a public method
call(t, m) ==
    /\ sched.stack[t] = << >>
    /\ m.name = "next" => gen.counter < MaxPulses
    /\ m.cls = "RegionSync" => sync.created < MaxCreated
    \* start(): "if self.running: return", else "self.running = True" and the
    \* thread is started on _run
    /\ m.name = "_run" => ~sched.running[m.cls]
    /\ sched' = [sched EXCEPT !.stack[t] = <<Frame(m)>>,
                              !.running[m.cls] = IF m.name = "_run" THEN TRUE ELSE @]
    /\ UNCHANGED <<gen, consensus, fired, integrator, rm, sync, lock_frame>>

\* "with self.lock": threading.Lock.acquire blocks while the lock is held,
\* whichever thread holds it
acquire(t) ==
    /\ sched.stack[t] # << >>
    /\ ~Top(t).inside
    /\ sched.holder[LockOf(Top(t))] = "free"
    /\ sched' = [sched EXCEPT !.holder[LockOf(Top(t))] = t,
                              !.stack[t][Len(sched.stack[t])].inside = TRUE]
    /\ UNCHANGED <<gen, consensus, fired, integrator, rm, sync, lock_frame>>

\* create_new_slot up to its first call: "self.current_slot_number += 1"
raises_slot_number(f) == f.cls = "PoHConsensus" /\ f.name = "create_new_slot" /\ f.k = 0

\* the body of the method thread t is in makes its next call
enter(t) ==
    /\ sched.stack[t] # << >>
    /\ Top(t).inside
    /\ Top(t).k < Len(body_calls(Top(t)))
    /\ sched' = [sched EXCEPT !.stack[t] = Append(@, Frame(body_calls(Top(t))[Top(t).k + 1]))]
    /\ consensus' = IF raises_slot_number(Top(t))
                    THEN [consensus EXCEPT !["a"].current_slot_number = @ + 1]
                    ELSE consensus
    /\ UNCHANGED <<gen, fired, integrator, rm, sync, lock_frame>>

\* the stack of t after its topmost call returned to its caller
Returned(t) ==
    LET d == Len(sched.stack[t])
    IN  IF d = 1 THEN << >>
        ELSE [SubSeq(sched.stack[t], 1, d - 1) EXCEPT ![d - 1].k = @ + 1]

\* the method thread t is in returns: the lock is released on leaving the
\* "with" block and the caller goes on
leave(t) ==
    /\ sched.stack[t] # << >>
    /\ Top(t).inside
    /\ Top(t).k >= Len(body_calls(Top(t)))
    /\ sched' = [holder |-> IF LockOf(Top(t)) = "none" THEN sched.holder
                            ELSE [sched.holder EXCEPT ![LockOf(Top(t))] = "free"],
                 stack |-> [sched.stack EXCEPT ![t] = Returned(t)],
                 running |-> sched.running]
    /\ IF Len(sched.stack[t]) = 1
       THEN Becomes(Outcome(Top(t), LockWorld, now).w)
       ELSE UNCHANGED <<gen, consensus, fired, integrator, rm, sync>>
    /\ UNCHANGED lock_frame

NextLock ==
    \/ \E t \in Threads, m \in PublicCalls : call(t, m)
    \/ \E t \in Threads : acquire(t)
    \/ \E t \in Threads : enter(t)
    \/ \E t \in Threads : leave(t)

\* the consensus of a validator node, which subscribes its _on_new_slot and
\* _on_slot_finalized
InitLock ==
    /\ Init
    /\ consensus = [i \in Instances |-> ConsensusInit(i, <<"confirm">>, <<"log">>)]

SpecLock == InitLock /\ [][NextLock]_vars

\* every thread that can take a step is scheduled, and a thread waiting for
\* a lock that is released again and again gets it
Scheduling ==
    \A t \in Threads : WF_vars(enter(t) \/ leave(t)) /\ SF_vars(acquire(t))

SpecLockLive == SpecLock /\ Scheduling

\* the calls of the heartbeat sender, the slot timer, the confirmers and the
\* sync thread
OrderCalls ==
    {Method("HeartbeatProtocol", "create_heartbeat", << >>),
     Method("HeartbeatProtocol", "get_status", << >>),
     Method("PoHConsensus", "get_current_slot", << >>),
     Method("PoHConsensus", "create_new_slot", << >>),
     Method("PoHConsensus", "confirm_slot", <<1, "v1">>),
     Method("PoHGenerator", "get_latest_hash", << >>),
     Method("RegionManager", "create_region", <<"R1">>),
     Method("RegionManager", "connect_regions", <<PrimaryRegion, "R1">>),
     Method("RegionSync", "process_message", <<SlotMessage>>)}

NextOrder ==
    \/ \E t \in Threads, m \in OrderCalls : call(t, m)
    \/ \E t \in Threads : acquire(t)
    \/ \E t \in Threads : enter(t)
    \/ \E t \in Threads : leave(t)

SpecOrder == InitLock /\ [][NextOrder]_vars


\* the region manager's sweeper thread among callers of the region manager,
\* while time passes
SweepCalls ==
    {Method("RegionManager", "_run", << >>),
     Method("RegionManager", "create_region", <<"R1">>),
     Method("RegionManager", "register_node", <<"n1", "R1">>),
     Method("RegionManager", "unregister_node", <<"n1">>),
     Method("RegionManager", "connect_regions", <<PrimaryRegion, "R1">>)}

NextSweep ==
    \/ \E t \in Threads, m \in SweepCalls : call(t, m)
    \/ \E t \in Threads : acquire(t)
    \/ \E t \in Threads : enter(t)
    \/ \E t \in Threads : leave(t)
    \/ Tick

SpecSweep == InitLock /\ [][NextSweep]_vars

SpecSweepLive == SpecSweep /\ Scheduling

\* stop() of a component whose loop was started: "self.running = False";
\* the join that follows gives up after two seconds
stop(cls) ==
    /\ sched.running[cls]
    /\ sched' = [sched EXCEPT !.running[cls] = FALSE]
    /\ UNCHANGED <<gen, consensus, fired, integrator, rm, sync, lock_frame>>

\* the components that run a background loop here: the hasher, the slot
\* timer and the region sweeper
Loops == {"PoHGenerator", "PoHConsensus", "RegionManager"}

\* the background loops, started and stopped while time passes
NextStop ==
    \/ \E t \in Threads, cls \in Loops : call(t, Method(cls, "_run", << >>))
    \/ \E t \in Threads : acquire(t)
    \/ \E t \in Threads : enter(t)
    \/ \E t \in Threads : leave(t)
    \/ \E cls \in Loops : stop(cls)
    \/ Tick

SpecStop == InitLock /\ [][NextStop]_vars

SpecStopLive == SpecStop /\ Scheduling

(***************************************************************************)
(* Claims about the pulse generator                                        *)
(***************************************************************************)
\* C1: on a generator that has imported nothing, the links returned by the
\* first N calls of next, in the order the lock serialised them, carry the
\* counters 1..N, each link's prev_hash is the hash of the link before it
\* (the genesis hash for the first), and verify accepts every one of them.
C1_PulseMonotonicity ==
    \A i \in 1..Len(issued) :
        /\ issued[i].counter = i
        /\ issued[i].prev_hash = (IF i = 1 THEN GenesisHash ELSE issued[i - 1].hash)
        /\ ~verify_raises(issued[i])
        /\ verify(issued[i])

\* three links were issued, the last one to thread t2, with an env payload
\* injected between the first and the second
C1_Witness ==
    /\ Len(issued) >= 3
    /\ op.name = "next" /\ op.thread = "t2"
    /\ issued[2].env_data_hash # issued[1].env_data_hash

\* C7: import_chain returns false and leaves last_hash, counter, env hash and
\* ring unchanged whenever some link of the batch, the first included, does
\* not pass verification.
C7_ImportRejectsBadBatch ==
    [][(imports' # imports /\ op'.arg[1].failing # {})
          => (op'.ret = <<FALSE>> /\ gen' = gen)]_vars

\* C8: import_chain(export_chain(0, k)) on the same generator, for any k from
\* 1 to the ring length, succeeds and leaves ring, last hash and counter as
\* they were.
C8_ImportExportRoundTrip ==
    [][(imports' # imports /\ op'.arg[1].own_prefix)
          => /\ op'.ret = <<TRUE>>
             /\ gen'.hash_chain = gen.hash_chain
             /\ gen'.last_hash = gen.last_hash
             /\ gen'.counter = gen.counter]_vars

\* C12: over any sequence of next and import_chain calls on one generator the
\* counter never decreases, and every link returned by next carries a counter
\* larger than that of the link the next() before it returned.
C12_CounterMonotone ==
    /\ [][gen'.counter >= gen.counter]_vars
    /\ [][(op'.name = "next" /\ (op.name # "next" \/ op' # op))
             => op'.ret[1].counter > returned]_vars

\* C19: verify(link) returns a boolean and never raises, whatever the link,
\* also for a link whose counter is 0 or whose prev_hash or env hash is
\* missing; it returns true only when link.hash is the digest of
\* (prev_hash, counter - 1, env_hash).
C19_VerifyNeverRaises ==
    op.name = "verify"
       => /\ op.ret[1] \in {"True", "False"}
          /\ op.ret[1] = "True"
                => op.arg[1].hash = Digest(op.arg[1].prev_hash, op.arg[1].counter - 1,
                                           op.arg[1].env_data_hash)

(***************************************************************************)
(* Claims about the consensus                                              *)
(***************************************************************************)
\* the slots of instance "a" that are finalized
FinalizedOf(c) == {n \in DOMAIN c.slots : c.slots[n].is_finalized}

\* how often an event of a slot was logged for a callback
Count(log, event, n, j) ==
    Cardinality({k \in 1..Len(log) :
                    log[k].event = event /\ log[k].slot = n /\ log[k].cb = j})

\* C2: a slot becomes finalized only when its confirmation set holds at least
\* max(1, ceil(2*V/3)) distinct ids, V the number of registered validators at
\* the attempt, and a slot whose finalization was attempted with that many is
\* finalized; with 4 validators two confirmations leave the slot open.
C2_QuorumFinalization ==
    /\ [](\A n \in DOMAIN consensus["a"].slots :
             LET slot == consensus["a"].slots[n]
             IN  (slot.confirmations # {} /\ ~slot.is_finalized)
                    => 3 * Cardinality(slot.confirmations)
                          < 2 * Cardinality(consensus["a"].validators))
    /\ [][\A n \in FinalizedOf(consensus'["a"]) \ FinalizedOf(consensus["a"]) :
             /\ Cardinality(consensus'["a"].slots[n].confirmations) >= 1
             /\ 3 * Cardinality(consensus'["a"].slots[n].confirmations)
                   >= 2 * Cardinality(consensus'["a"].validators)]_vars

\* a slot number is in finalized_slots at most once and exactly when the slot's
\* flag is set; per slot one score adjustment at most and one notification per
\* subscriber; finalize_slot applied to a finalized slot is the identity
FinalizedOnce(c) ==
    /\ \A k, l \in 1..Len(c.finalized_slots) :
           c.finalized_slots[k] = c.finalized_slots[l] => k = l
    /\ {c.finalized_slots[k] : k \in 1..Len(c.finalized_slots)} = FinalizedOf(c)
    /\ \A n \in 1..(MaxSlots + 1) :
           /\ Count(fired, "score", n, 0) <= 1
           /\ \A j \in 1..Len(c.on_slot_finalized_callbacks) :
                  Count(fired, "on_slot_finalized", n, j)
                     = (IF n \in FinalizedOf(c) THEN 1 ELSE 0)
           /\ n \in FinalizedOf(c) =>
                  \A t \in 0..MaxTime :
                      finalize_slot_in(World, "a", n, t) = [w |-> World, ret |-> TRUE]

\* C9: a slot number is appended to finalized_slots at most once, the leader's
\* score is adjusted at most once for the slot, each on_slot_finalized
\* callback fires at most once for it, and a finalize_slot call on an already
\* finalized slot returns true and changes no state.
C9_FinalizedAtMostOnce ==
    /\ []FinalizedOnce(consensus["a"])
    /\ [][(op' # op /\ op'.name = "finalize_slot"
              /\ op'.arg[1] \in FinalizedOf(consensus["a"]))
            => (op'.ret = <<TRUE>> /\ consensus' = consensus /\ fired' = fired
                  /\ gen' = gen)]_vars

\* two slots are finalized, the leader's score went down twice, the wired
\* callback heard of both, and the last call was finalize_slot by thread t2 on
\* slot 1, which was finalized before slot 2 was
C9_Witness ==
    LET c == consensus["a"]
    IN  /\ c.finalized_slots = <<1, 2>>
        /\ Count(fired, "score", 1, 0) = 1 /\ Count(fired, "score", 2, 0) = 1
        /\ Count(fired, "on_slot_finalized", 1, 1) = 1
        /\ op.name = "finalize_slot" /\ op.thread = "t2" /\ op.arg = <<1>>
        /\ op.ret = <<TRUE>>

\* C10: once a slot's is_finalized flag is true, no step of confirm_slot,
\* finalize_slot, create_new_slot, register_validator or register_leader
\* changes its confirmations, start_counter, end_counter, end_time, leader_id
\* or is_finalized.
C10_FinalizedSlotImmutable ==
    [][\A n \in FinalizedOf(consensus["a"]) :
          /\ n \in DOMAIN consensus'["a"].slots
          /\ \A f \in {"confirmations", "start_counter", "end_counter", "end_time",
                        "leader_id", "is_finalized"} :
                 consensus'["a"].slots[n][f] = consensus["a"].slots[n][f]]_vars

\* slot 1 was finalized by one confirmation before slot 2 was created; since
\* then four validators and a leader have registered and slot 2 has collected
\* confirmations that slot 1 does not have
C10_Witness ==
    LET c == consensus["a"]
    IN  /\ 1 \in FinalizedOf(c) /\ 2 \in DOMAIN c.slots
        /\ Cardinality(c.slots[1].confirmations) = 1
        /\ Cardinality(c.validators) = 4
        /\ c.slots[1].leader_id = c.node_id /\ c.leaders # << >>
        /\ c.slots[2].confirmations \ c.slots[1].confirmations # {}

\* C11: confirm_slot(s, v) for a validator v already in slot s's confirmation
\* set leaves the set, and so its size, unchanged, and does not finalize the
\* slot if it was not finalized (a slot below quorum is not finalized).
C11_DuplicateConfirmIdempotent ==
    [][(op' # op /\ op'.name = "confirm_slot" /\ op'.arg[3])
          => LET n == op'.arg[1]
             IN  /\ consensus'["a"].slots[n].confirmations
                       = consensus["a"].slots[n].confirmations
                 /\ consensus'["a"].slots[n].is_finalized
                       = consensus["a"].slots[n].is_finalized
                 /\ consensus'["a"].finalized_slots = consensus["a"].finalized_slots]_vars

\* validator v1 confirmed slot 1 a second time while three validators were
\* registered and the slot, holding v1's confirmation only, was open: the call
\* returned false and the slot is open still
C11_Witness ==
    LET c == consensus["a"]
    IN  /\ op.name = "confirm_slot" /\ op.arg = <<1, "v1", TRUE>> /\ op.ret = <<FALSE>>
        /\ Cardinality(c.validators) = 3
        /\ c.slots[1].confirmations = {"v1"} /\ ~c.slots[1].is_finalized

\* C13: every registered leader's performance_score lies in [0.5, 1.5] in every
\* reachable state, also when one leader is selected slot after slot.
C13_ScoreBounded ==
    \A i \in Instances : \A k \in 1..Len(consensus[i].leaders) :
        /\ consensus[i].leaders[k].performance_score >= ScoreMin
        /\ consensus[i].leaders[k].performance_score <= ScoreMax

\* whether id is a registered leader of c, and its record
IsLeader(c, id) == \E k \in 1..Len(c.leaders) : c.leaders[k].node_id = id
LeaderOf(c, id) == c.leaders[CHOOSE k \in 1..Len(c.leaders) : c.leaders[k].node_id = id]

\* the step is a create_new_slot of instance "a" that elected a registered leader
Elects(id) ==
    /\ consensus'["a"].current_slot_number = consensus["a"].current_slot_number + 1
    /\ consensus'["a"].current_leader_id = id
    /\ IsLeader(consensus["a"], id)

\* what an election does to the streaks and scores: the winner's streak grows
\* by one if it led the slot before and is 1 otherwise, its score is
\* multiplied by 0.95 if the streak now exceeds 3 (and then adjusted if the
\* slot was finalized by a subscriber at once), the other leaders keep theirs
RotationStep(id) ==
    LET c == consensus["a"]
        n == consensus'["a"].current_slot_number
        slot == consensus'["a"].slots[n]
        old == LeaderOf(c, id)
        new == LeaderOf(consensus'["a"], id)
        again == c.current_leader_id = id
        streak == IF again THEN old.consecutive_slots + 1 ELSE 1
        decayed == IF again /\ streak > 3
                   THEN [old EXCEPT !.performance_score = (@ * 95) \div 100] ELSE old
    IN  /\ new.consecutive_slots = streak
        /\ new.performance_score =
              IF slot.is_finalized
              THEN AdjustScore(decayed, slot.end_counter - slot.start_counter,
                               c.target_hashes_per_slot).performance_score
              ELSE decayed.performance_score
        /\ \A k \in 1..Len(c.leaders) :
               c.leaders[k].node_id # id => consensus'["a"].leaders[k] = c.leaders[k]

\* the slot just created is the leader's 4th in a row at least, by the slots'
\* leader_id and by the leader's consecutive_slots, and none of its slots was
\* finalized since the first of the four was created
FourWins(id) ==
    LET c == consensus["a"]
        n == consensus'["a"].current_slot_number
    IN  /\ n >= 4
        /\ \A m \in (n - 3)..(n - 1) : c.slots[m].leader_id = id
        /\ c.current_leader_id = id /\ LeaderOf(c, id).consecutive_slots >= 3
        /\ \A m \in FinalizedOf(c) :
               c.slots[m].leader_id = id => c.slots[m].end_time < c.slots[n - 3].start_time

LeaderTable(c) ==
    {[node_id |-> c.leaders[k].node_id, stake |-> c.leaders[k].stake,
      performance_score |-> c.leaders[k].performance_score] : k \in 1..Len(c.leaders)}

\* C6: for a fixed latest pulse hash, slot number and set of registered
\* leaders (ids, stakes, scores), select_leader returns the same id when it
\* is invoked again, whatever current_leader_id is, and two instances whose
\* sets of registered leaders are equal return the same id.
C6_SelectLeaderDeterministic ==
    \A n \in 1..MaxSlots :
        /\ \A i \in Instances :
               LET first == select_leader_in(World, i, n)
               IN  /\ \A id \in LeaderIds \cup {NoId} :
                          select_leader_in([World EXCEPT !.consensus[i].current_leader_id = id],
                                           i, n).ret = first.ret
                   /\ (/\ LeaderTable(first.w.consensus[i]) = LeaderTable(consensus[i])
                        /\ latest_link(first.w.gen) = latest_link(gen))
                          => select_leader_in(first.w, i, n).ret = first.ret
        /\ (/\ consensus["a"].leaders # << >>
             /\ LeaderTable(consensus["a"]) = LeaderTable(consensus["b"]))
               => select_leader_in(World, "a", n).ret = select_leader_in(World, "b", n).ret

\* C24: every id in the confirmation set of any slot is a registered
\* validator: confirm_slot adds no id, and finalization counts no id, that
\* register_validator did not register.
C24_ConfirmationsRegistered ==
    \A i \in Instances : \A n \in DOMAIN consensus[i].slots :
        consensus[i].slots[n].confirmations \subseteq consensus[i].validators

\* C25: every slot satisfies end_counter >= start_counter, however
\* create_new_slot, confirm_slot and finalize_slot interleave with next and
\* import_chain on the shared generator.
C25_EndNotBeforeStart ==
    \A i \in Instances : \A n \in DOMAIN consensus[i].slots :
        consensus[i].slots[n].end_counter >= consensus[i].slots[n].start_counter

(***************************************************************************)
(* Claims about the heartbeat protocol                                     *)
(***************************************************************************)
\* C3: process_heartbeat never accepts from a registered sender a sequence
\* number it has already accepted from that sender, also after the sender's
\* seen-sequence set has reached its size limit and entries were evicted.
C3_NoReplayAccepted ==
    \A id \in HbSenders : \A q \in 1..MaxSeq : accepted[id][q] <= 1

\* the signature of the heartbeat does not verify under the sender's key: it
\* is missing, or the ed25519 module is there and the signature was not made
\* with the sender's key (without the module every signature verifies)
DoesNotVerify(h, heartbeat) ==
    \/ heartbeat.signature = "none"
    \/ h.have_ed25519 /\ heartbeat.signature = "forged"

C28_TimeoutsFlagged ==
    op.name = "check_node_timeouts"
        => LET before == op.arg[1]
               after == op.ret[1]
               dispatched == op.ret[2]
               changed == {id \in DOMAIN before : before[id].status # after[id]}
           IN  /\ \A id \in DOMAIN before \ {HbSelf} :
                      before[id].overdue => after[id] = "timeout"
               /\ \A id \in DOMAIN before :
                      Cardinality({k \in 1..Len(dispatched) :
                                      dispatched[k] = [event |-> "on_node_status_change",
                                                       node |-> id]})
                          = IF id \in changed THEN 1 ELSE 0

(***************************************************************************)
(* Claims about the region manager                                         *)
(***************************************************************************)
\* C5: every region whose active_nodes set is not empty has as coordinator
\* the lexicographically smallest id of its active_nodes; registering n3,
\* n1, n2 into a region makes n1 its coordinator.
C5_CoordinatorIsSmallest ==
    \A region_id \in DOMAIN rm.regions :
        rm.regions[region_id].active_nodes # {}
            => rm.regions[region_id].coordinator_id
                  = SmallestOf(rm.regions[region_id].active_nodes)

\* the coordinator of a region in r, None for a region that does not exist
CoordinatorIn(r, region_id) ==
    IF region_id \in DOMAIN r.regions THEN r.regions[region_id].coordinator_id ELSE NoId

\* the coordinator_change calls for a region among the dispatched callbacks
CoordinatorCalls(dispatched, region_id) ==
    SelectSeq(dispatched, LAMBDA e : e.event = "on_coordinator_change"
                                        /\ e.region = region_id)

\* C16: every change of a region's coordinator fires
\* coordinator_change(region_id, new_coordinator) exactly once, also with
\* new_coordinator = None when the last active node of the region is
\* unregistered.
C16_CoordinatorChangeFiresOnce ==
    [][\A region_id \in RegionIds :
          CoordinatorIn(rm', region_id) # CoordinatorIn(rm, region_id)
             => CoordinatorCalls(rm'.dispatched, region_id)
                   = <<[event |-> "on_coordinator_change", region |-> region_id,
                        node |-> CoordinatorIn(rm', region_id)]>>]_vars

\* the connection relation of r is symmetric and irreflexive
SymmetricIrreflexive(r) ==
    \A a \in DOMAIN r.regions :
        /\ a \notin r.regions[a].connected_regions
        /\ \A b \in r.regions[a].connected_regions :
               /\ b \in DOMAIN r.regions
               /\ a \in r.regions[b].connected_regions

\* C17: the connection relation of the region manager is symmetric and
\* irreflexive in every reachable state: b is in connected_regions of a
\* exactly when a is in connected_regions of b, and no region is connected
\* to itself; connect_regions(a, a) returns false and changes nothing.
C17_ConnectionsSymmetric ==
    /\ []SymmetricIrreflexive(rm)
    /\ [][\A a \in RegionIds :
            connect_regions(a, a)
               => /\ connect_regions_in(RmCall, a, a, now).ret = FALSE
                  /\ rm'.regions = rm.regions
                  /\ rm'.nodes = rm.nodes]_vars

\* two regions that hold nodes are connected to each other
C17_Witness ==
    /\ {"R0", "R1"} \subseteq DOMAIN rm.regions
    /\ rm.regions["R0"].connected_regions = {"R1"}
    /\ rm.regions["R1"].connected_regions = {"R0"}
    /\ rm.regions["R0"].active_nodes # {}
    /\ rm.regions["R1"].active_nodes # {}

(***************************************************************************)
(* Claims about the region synchronisation                                 *)
(***************************************************************************)
\* C4: over any sequence of process_message deliveries the handler is called
\* at most once for a message_id, whether the first call returned or raised,
\* and whatever was processed in between, compaction of the processed-id set
\* included.
C4_HandlerAtMostOnce == \A id \in MessageIds : invoked[id] <= 1

\* the message is not for the local primary region, or comes from a region
\* that is not connected to it, or is older than the limit
Refusable(message) ==
    \/ message.target_region # rm.primary_region
    \/ message.source_region \notin rm.regions[rm.primary_region].connected_regions
    \/ now - message.timestamp > MessageMaxAge

\* C18: process_message returns false, invokes no handler and leaves the
\* processed-id set, the queues and the region manager unchanged when the
\* message's target region is not the local primary region, its source
\* region is not connected to the local region, or its timestamp is older
\* than the limit of 60 seconds.
C18_RefusedMessageDropped ==
    [][\A message \in RefusalInputs(now) :
          (/\ Refusable(message)
           /\ op'.name = "process_message"
           /\ op'.arg[1] = message.message_id
           /\ process_message_call(message))
             => /\ op'.ret = <<FALSE>>
                /\ invoked' = invoked
                /\ sync' = sync
                /\ rm' = rm]_vars

\* a fresh region_info message for the local region was just refused because
\* its source is no longer connected, after another message was processed
C18_Witness ==
    /\ op.name = "process_message"
    /\ op.arg[2] = PrimaryRegion
    /\ op.arg[3] = "region_info"
    /\ op.arg[4] = 0
    /\ op.ret = <<FALSE>>
    /\ op.arg[1] \notin sync.processed_message_ids
    /\ sync.processed_message_ids # {}
    /\ "R1" \in DOMAIN rm.regions
    /\ "R1" \notin rm.regions[PrimaryRegion].connected_regions

\* C31: chain requests are served: process_message accepts a fresh
\* poh_chain_request for the local region from a connected region (it runs a
\* handler and returns true), and a poh_chain message for the requesting
\* region is enqueued.
C31_ChainRequestServed ==
    [][\A message \in ServeInputs(now) :
          (/\ message.message_type = "poh_chain_request"
           /\ ~rejects(SyncWorld, message, now)
           /\ op'.name = "process_message"
           /\ op'.arg[1] = message.message_id
           /\ process_message_call(message))
             => /\ op'.ret = <<TRUE>>
                /\ invoked'[message.message_id] = invoked[message.message_id] + 1
                /\ \E k \in 1..Len(sync'.outgoing_messages) :
                       /\ sync'.outgoing_messages[k].message_type = "poh_chain"
                       /\ sync'.outgoing_messages[k].target_region = message.source_region]_vars

(***************************************************************************)
(* Claims about calls, threads and locks                                   *)
(***************************************************************************)
\* thread t is in a call of the named method that it made from outside
InCall(t, name) == sched.stack[t] # << >> /\ sched.stack[t][1].name = name

\* thread t is in no call
Idle(t) == sched.stack[t] = << >>

\* thread t waits for a lock it holds itself
WaitsForOwnLock(t) ==
    /\ sched.stack[t] # << >>
    /\ ~Top(t).inside
    /\ sched.holder[LockOf(Top(t))] = t

\* the step on which create_new_slot returns to thread t stores, under the
\* slot number the call raised the count to, a new open slot that starts at
\* the latest pulse
ReturnsNewSlot(t) ==
    (InCall(t, "create_new_slot") /\ Idle(t)')
        => LET k == consensus["a"].current_slot_number
               slots == consensus'["a"].slots
           IN  /\ consensus'["a"].current_slot_number = k
               /\ DOMAIN slots = 1..k
               /\ DOMAIN consensus["a"].slots = 1..(k - 1)
               /\ slots[k].slot_number = k
               /\ slots[k].confirmations = {}
               /\ ~slots[k].is_finalized
               /\ slots[k].start_counter = gen'.counter

\* C22: the k-th create_new_slot call on a consensus instance returns, and
\* what it returns is stored in the slot table as a new open slot numbered k
\* (one more than the call before, from whichever thread), with empty
\* confirmations, is_finalized false and start_counter at the latest pulse
\* counter.
C22_CreateNewSlotReturns ==
    /\ [][\A t \in Threads : ReturnsNewSlot(t)]_vars
    /\ \A t \in Threads : InCall(t, "create_new_slot") ~> Idle(t)

\* the step on which get_latest_hash, called with the ring empty, returns to
\* thread t leaves in the ring the one link made from the genesis state and
\* leaves the generator's lock free
ReturnsGenesisLink(t) ==
    (InCall(t, "get_latest_hash") /\ gen.hash_chain = << >> /\ Idle(t)')
        => /\ Len(gen'.hash_chain) = 1
           /\ gen'.hash_chain[1].counter = 1
           /\ gen'.hash_chain[1].prev_hash = GenesisHash
           /\ sched'.holder["PoHGenerator"] = "free"

\* C23: get_latest_hash called on a generator whose ring is empty returns, what
\* it returns is the link made from the genesis state (counter 1, prev_hash the
\* genesis hash), and the generator's lock is free afterwards.
C23_LatestOnEmptyRingReturns ==
    /\ [][\A t \in Threads : ReturnsGenesisLink(t)]_vars
    /\ \A t \in Threads :
           (InCall(t, "get_latest_hash") /\ gen.hash_chain = << >>)
               ~> (Idle(t) /\ sched.holder["PoHGenerator"] = "free")

\* C26: the lock of each component behaves as reentrant: no thread that holds
\* a component's lock waits for that same lock when the operation it is in
\* calls another operation of the component (create_new_slot calling
\* select_leader, register_node calling create_region or _select_coordinator,
\* broadcast_message calling send_message, ...).
C26_LocksReentrant == \A t \in Threads : ~WaitsForOwnLock(t)

\* thread t is in a callback of a subscriber of the consensus
InCallback(t) ==
    \E k \in 1..Len(sched.stack[t]) :
        sched.stack[t][k].name \in {"_on_new_slot", "_on_slot_finalized"}

\* C27: the on_new_slot and on_slot_finalized callbacks run while the thread
\* that dispatches them does not hold the lock of the consensus, so that
\* create_new_slot reaches its subscribers and a subscriber that calls
\* confirm_slot from its callback completes.
C27_CallbacksOutsideLock ==
    /\ [](\A t \in Threads : InCallback(t) => sched.holder["PoHConsensus"] # t)
    /\ \A t \in Threads :
           (InCall(t, "create_new_slot") /\ consensus["a"].on_new_slot_callbacks # << >>)
               ~> InCallback(t)
    /\ \A t \in Threads : InCallback(t) ~> Idle(t)

\* C29: while the consensus runs the slot timer makes progress: once start()
\* has started _run, slot 1 and then the higher-numbered slots are created,
\* and a slot that every registered validator has confirmed is finalized
\* (finalized_slots is not empty).
C29_SlotTimerProgress ==
    /\ (\E t \in Threads : InCall(t, "_run")) ~> (DOMAIN consensus["a"].slots = 1..MaxSlots)
    /\ [](\A n \in DOMAIN consensus["a"].slots :
              (/\ consensus["a"].validators # {}
               /\ consensus["a"].validators \subseteq consensus["a"].slots[n].confirmations)
                  => (/\ consensus["a"].slots[n].is_finalized
                      /\ consensus["a"].finalized_slots # << >>))

\* the step on which process_message returns to thread t after it accepted
\* the poh_slot message: one request for the chain up to the message's slot
\* has been enqueued for the message's source region unless the slot is
\* finalized locally, and nothing has been enqueued if it is
ReturnsChainRequest(t) ==
    (/\ InCall(t, "process_message")
     /\ Idle(t)'
     /\ SlotMessage.message_id \in sync'.processed_message_ids
     /\ SlotMessage.message_id \notin sync.processed_message_ids)
        => IF locally_finalized(consensus["a"], SlotMessage.data.slot_number)
           THEN sync'.outgoing_messages = sync.outgoing_messages
           ELSE \E request \in {sync'.outgoing_messages[k] :
                                   k \in 1..Len(sync'.outgoing_messages)} :
                    /\ sync'.outgoing_messages = Append(sync.outgoing_messages, request)
                    /\ request.message_type = "poh_chain_request"
                    /\ request.target_region = SlotMessage.source_region
                    /\ request.data.slot_number = SlotMessage.data.slot_number

\* C30: process_message, given an accepted poh_slot message that names a slot
\* not finalized locally, enqueues exactly one poh_chain_request for the
\* message's source region, covering the slots up to the named one, and
\* returns; when the slot is finalized locally nothing is enqueued.
C30_ChainRequested ==
    /\ [][\A t \in Threads : ReturnsChainRequest(t)]_vars
    /\ \A t \in Threads :
           (InCall(t, "process_message") /\ Top(t).name = "send_message") ~> Idle(t)

\* thread t is the sweeper of the region manager, in a sweep
InSweep(t) ==
    /\ sched.stack[t] # << >>
    /\ sched.stack[t][1].cls = "RegionManager"
    /\ sched.stack[t][1].name = "_run"

\* the step on which a sweep of thread t completes leaves registered no node
\* that was last active more than the inactivity window ago, leaves no
\* unregistered node among the active nodes of a region, and leaves every
\* region that has active nodes with a coordinator
SweepDone(t) ==
    (InSweep(t) /\ Idle(t)')
        => /\ \A node_id \in DOMAIN rm'.nodes :
                  now - rm'.nodes[node_id].last_active <= InactiveTimeout
           /\ \A region_id \in DOMAIN rm'.regions :
                  /\ rm'.regions[region_id].active_nodes \subseteq DOMAIN rm'.nodes
                  /\ rm'.regions[region_id].active_nodes # {}
                        => rm'.regions[region_id].coordinator_id # NoId

\* C32: every periodic sweep of the region manager completes, also when it
\* finds an inactive node to unregister, and when it has completed no node whose last_active is more than the inactivity window old
\* is registered or left in a region, and every region with active nodes has
\* a coordinator.
C32_SweepCompletes ==
    /\ [][\A t \in Threads : SweepDone(t)]_vars
    /\ \A t \in Threads : (InSweep(t) /\ Top(t).name = "unregister_node") ~> Idle(t)

\* thread t runs the background loop of a component
InLoop(t) == sched.stack[t] # << >> /\ sched.stack[t][1].name = "_run"

\* C33: cooperative shutdown: once stop() has cleared the running flag of a
\* component, each background loop of the component (the hasher, the slot
\* timer, the region sweeper) observes the flag and exits, whatever the state
\* was when stop() was called.
C33_LoopsExitAfterStop ==
    \A t \in Threads :
        (InLoop(t) /\ ~sched.running[sched.stack[t][1].cls]) ~> Idle(t)

(***************************************************************************)
(* Claims about the environmental data integrator                          *)
(***************************************************************************)
\* the samples of g that are not older than max_data_age at time t
FreshSamples(g, t) ==
    {k \in 1..Len(g.data_points) : t - g.data_points[k].timestamp <= MaxDataAge}

\* a step that creates a slot on the instance the integrator subscribed to
NewSlotEvent ==
    consensus'["a"].current_slot_number = consensus["a"].current_slot_number + 1

\* C20: on a new-slot event the integrator injects nothing when this node
\* does not lead the new slot or when fewer than min_sources samples newer
\* than max_data_age are available: the generator's env hash is as before,
\* its counter is what create_new_slot alone makes it, and the next link
\* reuses the previous env hash.
C20_NoInjectionWithoutLeadOrData ==
    [][(/\ NewSlotEvent
        /\ \/ ~consensus'["a"].is_leader
           \/ Cardinality(FreshSamples(integrator', now)) < MinSources)
          => /\ gen'.env_data_hash = gen.env_data_hash
             /\ gen'.counter = latest_gen(gen).counter
             /\ NextLink(gen', 0).env_data_hash = gen.env_data_hash]_vars

\* slot 2 was just created under another leader while enough fresh samples
\* were at hand, after the integrator injected data in slot 1, which this
\* node led: the pulse stands where slot 2 started and carries the env hash
\* of slot 1
C20_Witness ==
    LET c == consensus["a"]
    IN  /\ c.current_slot_number = 2
        /\ c.slots[1].leader_id = c.node_id
        /\ ~c.is_leader
        /\ c.slots[2].start_time = now
        /\ Cardinality(FreshSamples(integrator, now)) >= MinSources
        /\ integrator.latest_integrated_data # << >>
        /\ gen.counter = c.slots[2].start_counter
        /\ gen.env_data_hash
              = EnvDigest(IntegratedPayload(integrator.latest_integrated_data[1]))

\* the i-th value is ten times the median of the values
TenTimesMedian(values, i) == 2 * values[i] = 10 * median_x2(values)

\* for the data list of the recorded call: the fused result leaves out every
\* value ten times the median and is the confidence-weighted mean of the
\* values within 3 MAD of the median
OutlierRejected ==
    LET values == [i \in 1..Len(op.arg[1]) |-> op.arg[1][i].value]
        weights == [i \in 1..Len(op.arg[1]) |-> op.arg[1][i].confidence]
        remaining == within_mads(values)
    IN  /\ \A i \in 1..Len(values) : TenTimesMedian(values, i) => i \notin remaining
        /\ SameFraction(op.ret[1], weighted_mean(values, weights, remaining))

\* a call with at least four values of which one is ten times the median
FuseCase ==
    /\ op.name = "_integrate_by_type"
    /\ Len(op.arg[1]) >= 4
    /\ \E i \in 1..Len(op.arg[1]) :
           2 * op.arg[1][i].value
              = 10 * median_x2([j \in 1..Len(op.arg[1]) |-> op.arg[1][j].value])

\* no value has the sign opposite to that of the median, which is not zero
OneSided ==
    LET median2 == median_x2([j \in 1..Len(op.arg[1]) |-> op.arg[1][j].value])
    IN  /\ median2 # 0
        /\ \A i \in 1..Len(op.arg[1]) : op.arg[1][i].value * median2 >= 0

\* C21 as stated: for every numeric field with N >= 4 values of which one is
\* 10 times the median, that value is excluded by the 3*MAD filter and the
\* fused result is the confidence-weighted mean of the remaining values.
C21_AsStated == FuseCase => OutlierRejected

\* C21: for every numeric field with N >= 4 values of which one is 10 times
\* the median, where the median is not zero and no value has the sign
\* opposite to the median's, that value is excluded by the 3*MAD filter and
\* the fused result is the confidence-weighted mean of the remaining values.
C21_OutlierRejected == (FuseCase /\ OneSided) => OutlierRejected

C21_Witness ==
    /\ FuseCase
    /\ OneSided
    /\ \E i, j \in 1..Len(op.arg[1]) : op.arg[1][i].confidence # op.arg[1][j].confidence
    /\ OutlierRejected

(***************************************************************************)
(* Claims about the size and shape of the shared structures                *)
(***************************************************************************)
\* a generator that keeps hashing while a consensus instance creates slot
\* after slot
NextGrow ==
    \/ \E env_data \in {0} \cup EnvPayloads : next("t1", env_data)
    \/ create_new_slot_run("a")

SpecGrow == Init /\ [][NextGrow]_vars

\* the bound of the slot table and of the message queues: the code names one
\* size limit, the ring's, and it is taken for all three structures
StructureLimit == RingLimit

\* C34: the three shared structures stay bounded: the pulse ring never holds
\* more than its limit of links and holds the most recent ones, and the slot
\* table and the outgoing and incoming queues of the region sync never hold
\* more than a fixed number of entries
C34_StructuresBounded ==
    /\ Len(gen.hash_chain) <= RingLimit
    /\ \A k \in 1..Len(gen.hash_chain) :
           gen.hash_chain[k].counter = gen.counter - Len(gen.hash_chain) + k
    /\ \A i \in Instances : Cardinality(DOMAIN consensus[i].slots) <= StructureLimit
    /\ Len(sync.outgoing_messages) <= StructureLimit
    /\ Len(sync.incoming_messages) <= StructureLimit

\* no slot is ever evicted: the table holds every slot created so far
NoSlotEvicted ==
    \A i \in Instances : DOMAIN consensus[i].slots = 1..consensus[i].current_slot_number

\* C36: after any sequence of next and successful import_chain calls the
\* ring is a linked chain, each entry's prev_hash being the hash of the entry
\* before it and its counter one greater, and the last entry carries the
\* generator's last_hash and counter, so that the link get_latest_hash
\* returns is the one the following next extends
C36_RingLinked ==
    /\ \A k \in 2..Len(gen.hash_chain) :
           /\ gen.hash_chain[k].prev_hash = gen.hash_chain[k - 1].hash
           /\ gen.hash_chain[k].counter = gen.hash_chain[k - 1].counter + 1
    /\ gen.hash_chain # << >>
           => /\ gen.hash_chain[Len(gen.hash_chain)].hash = gen.last_hash
              /\ gen.hash_chain[Len(gen.hash_chain)].counter = gen.counter

\* C35: in every state of the region manager the coordinator of each region
\* is None or a member of the region's active_nodes, whatever nodes were
\* registered, moved to another primary region, unregistered, or added to
\* and removed from secondary regions
C35_CoordinatorIsMember ==
    \A region_id \in DOMAIN rm.regions :
        \/ rm.regions[region_id].coordinator_id = NoId
        \/ rm.regions[region_id].coordinator_id \in rm.regions[region_id].active_nodes

\* the order of the components' locks: the first is taken before the second
LockOrder ==
    {<<"HeartbeatProtocol", "PoHConsensus">>, <<"HeartbeatProtocol", "PoHGenerator">>,
     <<"PoHConsensus", "PoHGenerator">>, <<"RegionSync", "RegionManager">>,
     <<"RegionSync", "PoHConsensus">>, <<"RegionSync", "PoHGenerator">>}

\* the lock thread t waits for, if it waits
WaitsFor(t) ==
    IF sched.stack[t] # << >> /\ ~Top(t).inside THEN {LockOf(Top(t))} ELSE {}

C38_FinalizedInOrder ==
    \A i \in Instances :
        LET f == consensus[i].finalized_slots
        IN  /\ \A j, k \in 1..Len(f) : j < k => f[j] < f[k]
            /\ f # << >>
                  => \A n \in DOMAIN consensus[i].slots :
                         consensus[i].slots[n].is_finalized => n <= f[Len(f)]

\* C39: the primary region of a registered node is never one of its
\* secondary regions, also when register_node moves the node into a region
\* it belongs to as a secondary
C39_PrimaryNotSecondary ==
    \A node_id \in DOMAIN rm.nodes :
        rm.nodes[node_id].primary_region \notin rm.nodes[node_id].secondary_regions

\* C40: register_node of the heartbeat protocol for a peer that is already
\* registered keeps the peer's set of accepted sequence numbers and its
\* status, so that a heartbeat accepted before the re-registration is still
\* rejected as a replay after it
C40_ReRegistrationKeepsSeen ==
    [][\A id \in HbPeers :
          (id \in DOMAIN hb.nodes /\ heartbeat_register_node(id))
             => /\ hb'.nodes[id].sequence_seen = hb.nodes[id].sequence_seen
                /\ hb'.nodes[id].status = hb.nodes[id].status
                /\ \A q \in hb.nodes[id].sequence_seen :
                       ~process_heartbeat_in(hb', HeartbeatMessage(id, q, now, "valid"),
                                             now).ret]_vars

====
